---------------------------- MODULE Spec2Model ----------------------------
(***************************************************************************)
(* A model of jobhunter-ai: the LLM settings record and its per-task       *)
(* overrides (services/gemini.ts, components/SettingsModal.tsx), the job   *)
(* search and its sequential match analysis (components/JobSearchSection), *)
(* the tracked-job list (App.tsx, components/JobCard.tsx) and the task     *)
(* orchestrators of services/gemini.ts.                                    *)
(*                                                                         *)
(* Each part of the program has its own specification over the shared      *)
(* variables: SpecSettings, SpecModal, SpecSearch, SpecTrack, SpecTrackUI, *)
(* SpecCalls, SpecNormalizer, SpecRead, SpecErrors, SpecGate; SpecSearch   *)
(* with fair returns is SpecSearchLive.                                    *)
(***************************************************************************)
EXTENDS Integers, Sequences, FiniteSets, TLC

VARIABLES
    \* ---- settings (gemini.ts 5-42, SettingsModal.tsx 11-117)
    stored,        \* localStorage item 'jobhunter_llm_settings'
    settings,      \* SettingsModal state `settings` (the draft being edited)
    isOpen,        \* JobSearchSection state isSettingsOpen
    activeTab,     \* SettingsModal state activeTab
    pendingClose,  \* number of handleSave timers that have not fired yet
    edits,         \* number of edits and saves made so far (bounded by MaxEdits)
    ovTouched,     \* history: tasks whose override was created, edited or
                   \* removed in the draft since the draft was loaded
    availableModels, \* SettingsModal state availableModels (the list shown)
    listings       \* the fetchProviderModels calls of the modal in flight:
                   \* the provider, apiKey and baseUrl each was made with

VARIABLES
    \* ---- tracked jobs (App.tsx 19-49, JobCard.tsx 44-71)
    trackedJobs,   \* App state trackedJobs
    now,           \* the clock read by new Date()
    lastTrack      \* history: the job id and status of the latest handleTrackJob
                   \* call and the number of calls made so far

VARIABLES
    \* ---- job search (JobSearchSection.tsx 128-129, 249-281)
    jobs,          \* JobSearchSection state jobs (the displayed list)
    isSearching,   \* JobSearchSection state isSearching
    procs,         \* the performSearch invocations: position, jobsWithState, loop index
    calls          \* the analyzeJobMatchSafe calls in flight: (invocation, index)

VARIABLES
    \* ---- one orchestrator call of services/gemini.ts
    op,            \* the call: its name, position, arguments and provider answer
    net,           \* the outbound requests it has made, in order
    outcome,       \* what the orchestrator returned or threw
    safeOutcome    \* what its Safe wrapper returned

settingsVars ==
    <<stored, settings, isOpen, activeTab, pendingClose, edits, ovTouched, availableModels, listings>>
trackVars == <<trackedJobs, now, lastTrack>>
searchVars == <<jobs, isSearching, procs, calls>>
callVars == <<op, net, outcome, safeOutcome>>

vars == <<settingsVars, trackVars, searchVars, callVars>>

\* What the actions of one part of the program leave alone.
notSettings == <<trackVars, searchVars, callVars>>
notTrack == <<settingsVars, searchVars, callVars>>
notSearch == <<settingsVars, trackVars, callVars>>
notCalls == <<settingsVars, trackVars, searchVars>>

-----------------------------------------------------------------------------
(* JavaScript objects are functions from the keys they hold to values.  A    *)
(* key may be held with the value undefined; JSON.stringify drops such keys. *)

Undefined == "undefined"

\* o[k] in JavaScript: undefined when the key is missing.
Get(o, k) == IF k \in DOMAIN o THEN o[k] ELSE Undefined

\* Truthiness of a string-or-undefined value.
Truthy(v) == v # Undefined /\ v # ""

\* { ...a, ...b }
Spread(a, b) ==
    [k \in (DOMAIN a) \cup (DOMAIN b) |-> IF k \in DOMAIN b THEN b[k] ELSE a[k]]

EmptyObject == [k \in {} |-> k]

\* types.ts 40-42
LLMProvider == {"google", "openai", "anthropic", "groq", "deepseek", "openrouter", "custom"}
TaskType == {"parsing", "tailoring", "matching", "search"}
NoTask == "none"

\* The only LLMConfig key the program holds with the value undefined.
OptionalKeys == {"baseUrl"}

\* gemini.ts 8: process.env.API_KEY || '' of a build without the variable
EnvApiKey == ""

\* gemini.ts 6-13
DEFAULT_SETTINGS ==
    [provider |-> "google", apiKey |-> EnvApiKey, modelName |-> "gemini-2.0-flash-exp",
     supportsVision |-> TRUE, supportsSearch |-> TRUE, overrides |-> EmptyObject]

\* JSON.parse(JSON.stringify(o)) of a settings or config object: keys holding
\* undefined are dropped, at every depth (an override made by copying the
\* global record carries that record's own overrides key).
RECURSIVE JsonRoundTrip(_)
JsonRoundTrip(o) ==
    [k \in {x \in DOMAIN o : ~(x \in OptionalKeys /\ o[x] = Undefined)} |->
        IF k = "overrides"
        THEN [t \in DOMAIN o[k] |-> JsonRoundTrip(o[k][t])]
        ELSE o[k]]

\* localStorage.getItem(SETTINGS_KEY): absent, or the JSON text last written.
NoItem == [kind |-> "absent", val |-> EmptyObject]
Item(json) == [kind |-> "json", val |-> json]

\* gemini.ts 19-27
getLLMSettings ==
    IF stored.kind = "absent" THEN DEFAULT_SETTINGS
    ELSE LET parsed == stored.val
         IN  Spread(Spread(DEFAULT_SETTINGS, parsed),
                    [overrides |-> IF "overrides" \in DOMAIN parsed
                                   THEN parsed.overrides ELSE EmptyObject])

\* A resolver that never looks at the overrides.
getTaskSettingsGlobalOnly(task) == getLLMSettings

\* A resolver that merges the override over the global record at read time.
getTaskSettingsMerged(task) ==
    LET s == getLLMSettings
    IN  IF task # NoTask /\ task \in DOMAIN s.overrides
        THEN Spread(s, s.overrides[task])
        ELSE s

\* A resolver in which an override with a blank key takes the global key.
getTaskSettingsInheritsKey(task) ==
    LET s == getLLMSettings
    IN  IF task # NoTask /\ task \in DOMAIN s.overrides
        THEN IF s.overrides[task].apiKey = ""
             THEN Spread(s.overrides[task], [apiKey |-> s.apiKey])
             ELSE s.overrides[task]
        ELSE s

\* gemini.ts 31-37
getTaskSettings(task) ==
    LET s == getLLMSettings
    IN  IF task # NoTask /\ task \in DOMAIN s.overrides
        THEN s.overrides[task]
        ELSE s

\* gemini.ts 40-42
saveLLMSettings(s) == Item(JsonRoundTrip(s))

\* An optional value: absent, or present with a value.
None == <<>>
Some(x) == <<x>>

-----------------------------------------------------------------------------
(* SettingsModal *)

Tabs == {"global"} \cup TaskType

\* SettingsModal.tsx 26-28
currentConfig ==
    IF activeTab = "global" THEN settings
    ELSE IF activeTab \in DOMAIN settings.overrides THEN settings.overrides[activeTab]
    ELSE settings

\* SettingsModal.tsx 30
isOverridden == activeTab # "global" /\ activeTab \in DOMAIN settings.overrides

\* An update that builds the global record anew from the defaults and the
\* edited fields, losing the overrides.
handleUpdateConfigDropsOverrides(s, tab, updates) ==
    IF tab = "global"
    THEN Spread(Spread(s, updates), [overrides |-> EmptyObject])
    ELSE Spread(s, [overrides |->
            Spread(s.overrides,
                   [t \in {tab} |->
                       Spread(IF tab \in DOMAIN s.overrides THEN s.overrides[tab] ELSE s,
                              updates)])])

\* SettingsModal.tsx 79-95
handleUpdateConfig(s, tab, updates) ==
    IF tab = "global"
    THEN Spread(s, updates)
    ELSE Spread(s, [overrides |->
            Spread(s.overrides,
                   [t \in {tab} |->
                       Spread(IF tab \in DOMAIN s.overrides THEN s.overrides[tab] ELSE s,
                              updates)])])

\* SettingsModal.tsx 129-137
defaultModel ==
    [google |-> "gemini-2.0-flash-exp", openai |-> "gpt-4o",
     anthropic |-> "claude-3-5-sonnet-20241022", groq |-> "llama-3.3-70b-versatile",
     deepseek |-> "deepseek-chat", openrouter |-> "google/gemini-2.0-flash-exp:free",
     custom |-> "llama3"]

LocalBaseUrl == "http://localhost:11434/v1"

\* SettingsModal.tsx 235-243: the updates of a click on provider p
ProviderUpdates(p) ==
    [provider |-> p,
     modelName |-> defaultModel[p],
     supportsSearch |-> (p = "google"),
     supportsVision |-> (p \in {"google", "openai", "anthropic", "groq"}),
     baseUrl |-> IF p = "custom" /\ ~Truthy(Get(currentConfig, "baseUrl"))
                 THEN LocalBaseUrl ELSE Get(currentConfig, "baseUrl")]

\* Values clicked and typed in the form.  The providers clicked cover both values
\* of supportsSearch and of supportsVision and the three base-URL rules.
ClickedProviders == {"google", "anthropic", "openrouter", "custom"}
ClickedTabs == {"global", "matching", "search"}
ApiKeys == {"", "k1"}
BaseUrls == {"", "https://proxy.example/v1"}
ManualModels == {"my-model"}

\* Bound on the number of edits, saves and model fetches of one behaviour.
MaxEdits == 3

\* SettingsModal.tsx 226: the form takes input on the global tab or an overridden task tab
FormEnabled == isOpen /\ (activeTab = "global" \/ isOverridden)

\* SettingsModal.tsx 72: the dependencies of the effect that fetches the models
fetchDeps ==
    <<currentConfig.provider, currentConfig.apiKey, Get(currentConfig, "baseUrl"),
      isOpen, activeTab, isOverridden>>

\* SettingsModal.tsx 43-72: the effect runs when a dependency has changed. Its
\* cleanup clears the timer of the run before, so a call not yet started is
\* dropped; then, the modal open, a task tab without override empties the list
\* and any other tab sets the timer of a call with the config shown.
loadModelsEffect ==
    LET started == {l \in listings : l.started}
        shown == currentConfig'
    IN  IF fetchDeps' = fetchDeps THEN UNCHANGED <<availableModels, listings>>
        ELSE IF ~isOpen' THEN availableModels' = availableModels /\ listings' = started
        ELSE IF activeTab' # "global" /\ ~isOverridden'
             THEN availableModels' = <<>> /\ listings' = started
        ELSE /\ availableModels' = availableModels
             /\ listings' = started \cup
                    {[provider |-> shown.provider, apiKey |-> shown.apiKey,
                      baseUrl |-> Get(shown, "baseUrl"), started |-> FALSE]}

\* An edit of the form: handleUpdateConfig with the field's updates.
Edit(updates) ==
    /\ FormEnabled
    /\ edits < MaxEdits
    /\ settings' = handleUpdateConfig(settings, activeTab, updates)
    /\ edits' = edits + 1
    /\ ovTouched' = IF activeTab = "global" THEN ovTouched ELSE ovTouched \cup {activeTab}
    /\ UNCHANGED <<stored, isOpen, activeTab, pendingClose>>
    /\ UNCHANGED notSettings
    /\ loadModelsEffect

\* SettingsModal.tsx 233-244
ProviderClick == \E p \in ClickedProviders : Edit(ProviderUpdates(p))

\* SettingsModal.tsx 265-268
ApiKeyInput == \E k \in ApiKeys : Edit([apiKey |-> k])

\* SettingsModal.tsx 285-297
BaseUrlInput ==
    /\ currentConfig.provider \in {"openrouter", "custom"}
    /\ \E u \in BaseUrls : Edit([baseUrl |-> u])

\* SettingsModal.tsx 336-342
ModelNameInput == \E m \in ManualModels : Edit([modelName |-> m])

\* SettingsModal.tsx 359-367
VisionToggle == Edit([supportsVision |-> ~currentConfig.supportsVision])

\* SettingsModal.tsx 369-378
SearchToggle ==
    /\ currentConfig.provider = "google"
    /\ Edit([supportsSearch |-> ~currentConfig.supportsSearch])

\* SettingsModal.tsx 97-100, 214-220
handleCreateOverride ==
    /\ isOpen /\ activeTab # "global" /\ ~isOverridden
    /\ edits < MaxEdits
    /\ settings' = handleUpdateConfig(settings, activeTab, EmptyObject)
    /\ edits' = edits + 1
    /\ ovTouched' = ovTouched \cup {activeTab}
    /\ UNCHANGED <<stored, isOpen, activeTab, pendingClose>>
    /\ UNCHANGED notSettings
    /\ loadModelsEffect

\* SettingsModal.tsx 102-108, 207-213
handleRemoveOverride ==
    /\ isOpen /\ isOverridden
    /\ edits < MaxEdits
    /\ settings' = Spread(settings, [overrides |->
            [t \in (DOMAIN settings.overrides) \ {activeTab} |-> settings.overrides[t]]])
    /\ edits' = edits + 1
    /\ ovTouched' = ovTouched \cup {activeTab}
    /\ UNCHANGED <<stored, isOpen, activeTab, pendingClose>>
    /\ UNCHANGED notSettings
    /\ loadModelsEffect

\* SettingsModal.tsx 174
setActiveTab ==
    /\ isOpen
    /\ \E tab \in ClickedTabs : activeTab' = tab
    /\ UNCHANGED <<stored, settings, isOpen, pendingClose, edits, ovTouched>>
    /\ UNCHANGED notSettings
    /\ loadModelsEffect

\* SettingsModal.tsx 110-112: the save itself; the timer of 113-116 is CloseTimer
handleSave ==
    /\ isOpen
    /\ edits < MaxEdits
    /\ stored' = saveLLMSettings(settings)
    /\ pendingClose' = pendingClose + 1
    /\ edits' = edits + 1
    /\ UNCHANGED <<settings, isOpen, activeTab, ovTouched>>
    /\ UNCHANGED notSettings
    /\ loadModelsEffect

\* SettingsModal.tsx 113-116: setTimeout(() => { setIsSaved(false); onClose(); }, 1000)
CloseTimer ==
    /\ pendingClose > 0
    /\ pendingClose' = pendingClose - 1
    /\ isOpen' = FALSE
    /\ UNCHANGED <<stored, settings, activeTab, edits, ovTouched>>
    /\ UNCHANGED notSettings
    /\ loadModelsEffect

\* A modal that persists its draft when it is closed.
onCloseSaves ==
    /\ isOpen
    /\ isOpen' = FALSE
    /\ stored' = saveLLMSettings(settings)
    /\ UNCHANGED <<settings, activeTab, pendingClose, edits, ovTouched>>
    /\ UNCHANGED notSettings
    /\ loadModelsEffect

\* SettingsModal.tsx 157, 394; JobSearchSection.tsx 500
onClose ==
    /\ isOpen
    /\ isOpen' = FALSE
    /\ UNCHANGED <<stored, settings, activeTab, pendingClose, edits, ovTouched>>
    /\ UNCHANGED notSettings
    /\ loadModelsEffect

\* JobSearchSection.tsx 532, 1053 and SettingsModal.tsx 33-40
OpenSettings ==
    /\ ~isOpen
    /\ isOpen' = TRUE
    /\ settings' = getLLMSettings
    /\ activeTab' = "global"
    /\ ovTouched' = {}
    /\ UNCHANGED <<stored, pendingClose, edits>>
    /\ UNCHANGED notSettings
    /\ loadModelsEffect

\* A record written by an earlier version of the program, without overrides.
LegacyRecord ==
    [provider |-> "openai", apiKey |-> "k1", modelName |-> "gpt-4o",
     supportsVision |-> TRUE, supportsSearch |-> FALSE]

\* A record saved by this program: global defaults, and for matching an override
\* created from them (SettingsModal.tsx 89) and then set to OpenAI with a key.
OverrideRecord ==
    [provider |-> "google", apiKey |-> "", modelName |-> "gemini-2.0-flash-exp",
     supportsVision |-> TRUE, supportsSearch |-> TRUE,
     overrides |-> [matching |->
        [provider |-> "openai", apiKey |-> "k1", modelName |-> "gpt-4o",
         supportsVision |-> TRUE, supportsSearch |-> FALSE, overrides |-> EmptyObject]]]

InitialItems == {NoItem, Item(LegacyRecord), Item(OverrideRecord)}

InitSettings ==
    /\ stored \in InitialItems
    /\ settings = getLLMSettings
    /\ isOpen = FALSE
    /\ activeTab = "global"
    /\ pendingClose = 0
    /\ edits = 0
    /\ ovTouched = {}
    /\ availableModels = <<>>
    /\ listings = {}


-----------------------------------------------------------------------------
(* Tracked jobs: App.handleTrackJob and the JobCard controls that call it *)

\* types.ts 32
ApplicationStatus == {"saved", "applied", "interviewing", "offer", "rejected"}

\* JobCard.tsx 233: the statuses the picker of a tracked card offers
PickerStatuses == {"applied", "interviewing", "offer", "rejected"}

\* appliedDate: undefined of a job never stamped; the clock starts after it.
NoDate == 0

\* Bounds of the tracking specifications: clock ticks and track calls.
MaxTime == 3
MaxTracks == 3

\* The jobs a card can show: types.ts 8-30 reduced to the id, one content field
\* and the optional analysis (named by the resume it recommends).
JobIds == {"1", "2"}
Titles == {"Backend Engineer", "Data Engineer"}
CardJobs ==
    [id : JobIds, title : Titles, analysis : {None, Some("default-1")}]

\* App.tsx 24: prev.findIndex(j => j.id === job.id), 0 for -1
findIndex(prev, id) ==
    IF \E i \in 1..Len(prev) : prev[i].id = id
    THEN CHOOSE i \in 1..Len(prev) : prev[i].id = id /\ \A k \in 1..(i-1) : prev[k].id # id
    ELSE 0

\* A handler that stamps appliedDate on every status change.
handleTrackJobStampsAlways(prev, job, status, time) ==
    LET existingIndex == findIndex(prev, job.id)
    IN  IF existingIndex > 0
        THEN [prev EXCEPT ![existingIndex] =
                Spread(prev[existingIndex], [status |-> status, appliedDate |-> time])]
        ELSE Append(prev, Spread(job, [status |-> status, appliedDate |-> time]))

\* A handler that stores the job it is given over the entry it finds.
handleTrackJobReplaces(prev, job, status, time) ==
    LET existingIndex == findIndex(prev, job.id)
        entry == Spread(job, [status |-> status,
                              appliedDate |-> IF status = "applied" THEN time ELSE NoDate])
    IN  IF existingIndex > 0 THEN [prev EXCEPT ![existingIndex] = entry]
        ELSE Append(prev, entry)

\* App.tsx 22-49: the next value of trackedJobs
handleTrackJob(prev, job, status, time) ==
    LET existingIndex == findIndex(prev, job.id)
    IN  IF existingIndex > 0
        THEN [prev EXCEPT ![existingIndex] =
                IF status = "applied"
                THEN Spread(prev[existingIndex], [status |-> status, appliedDate |-> time])
                ELSE Spread(prev[existingIndex], [status |-> status])]
        ELSE Append(prev, Spread(job, [status |-> status,
                                       appliedDate |-> IF status = "applied" THEN time ELSE NoDate]))

\* One call of onTrackJob(job, status).
Track(job, status) ==
    /\ lastTrack.calls < MaxTracks
    /\ trackedJobs' = handleTrackJob(trackedJobs, job, status, now)
    /\ lastTrack' = [id |-> job.id, status |-> status, calls |-> lastTrack.calls + 1]
    /\ UNCHANGED now
    /\ UNCHANGED notTrack

\* The clock advances between user actions.
Tick ==
    /\ now < MaxTime
    /\ now' = now + 1
    /\ UNCHANGED <<trackedJobs, lastTrack>>
    /\ UNCHANGED notTrack

\* App.tsx 22: the handler called with any job and any status of its type
handleTrackJobCall == \E job \in CardJobs, status \in ApplicationStatus : Track(job, status)

\* JobSearchSection.tsx 1088: isTracked of a search-result card
isTracked(job) == \E i \in 1..Len(trackedJobs) : trackedJobs[i].id = job.id

\* JobCard.tsx 44-60 on a search-result card: opens the listing and, if the job
\* is not tracked yet, tracks it as applied
handleApplyClick ==
    \E job \in CardJobs :
        /\ ~isTracked(job)
        /\ Track(job, "applied")

\* JobCard.tsx 66-71, 231-242 on a card of the tracked list
handleStatusChange ==
    \E i \in 1..Len(trackedJobs), s \in PickerStatuses : Track(trackedJobs[i], s)

\* JobCard.tsx 66-71, 231-242 on a search-result card whose id is tracked
handleStatusChangeFromSearch ==
    \E job \in CardJobs, s \in PickerStatuses :
        /\ isTracked(job)
        /\ Track(job, s)

-----------------------------------------------------------------------------
(* Job search: performSearch and its sequential match analysis *)

\* Bounds of the search specification: performSearch invocations of one
\* behaviour and jobs of one search result.
MaxSearches == 2
MaxJobs == 2

\* A job a search returns: types.ts 8-17 reduced to the id and one content field.
Posting(id, title) == [id |-> id, title |-> title]

\* Answers of the language model to searches.  The id of a posting is the one
\* the model wrote (gemini.ts 547): it numbers the postings of each answer, so
\* two answers give the same id to different postings; the last answer repeats
\* an id.
Answers ==
    {<<Posting("1", "Backend Engineer"), Posting("2", "Data Engineer"),
       Posting("3", "ML Engineer")>>,
     <<Posting("1", "Data Engineer"), Posting("2", "Backend Engineer"),
       Posting("3", "Platform Engineer")>>,
     <<Posting("1", "Backend Engineer"), Posting("1", "Data Engineer")>>}

\* The first n jobs of an answer.
firstJobs(answer, n) == SubSeq(answer, 1, IF n < Len(answer) THEN n ELSE Len(answer))

\* The results of searchJobsSafe: at most MaxJobs jobs of an answer.
SearchResults == {firstJobs(answer, n) : answer \in Answers, n \in 0..MaxJobs}

\* The scores of an analysis (JobAnalysis.matchScore).
Scores == {40, 90}

\* gemini.ts 604-652 as the caller sees it: the analysis computed from the
\* job's title, company and summary (its basis), with jobId set to the job's id
\* (gemini.ts 641, 645).
AnalysisFor(job, score) ==
    [jobId |-> job.id, basis |-> job.title, matchScore |-> score]

\* gemini.ts 716-729: the results of analyzeJobMatchSafe(job): an analysis, or null
AnalysisResults(job) == {None} \cup {Some(AnalysisFor(job, sc)) : sc \in Scores}

\* JobSearchSection.tsx 1086: job.analysis?.matchScore || 0
scoreOf(job) == IF job.analysis = None THEN 0 ELSE job.analysis[1].matchScore

\* JobSearchSection.tsx 1085-1086: jobs.sort(...) of each render sorts the state
\* array in place, best score first, equal scores keeping their order
RECURSIVE sortByScore(_)
sortByScore(l) ==
    IF Len(l) <= 1 THEN l
    ELSE LET best == CHOOSE i \in 1..Len(l) :
                       /\ \A k \in 1..Len(l) : scoreOf(l[k]) <= scoreOf(l[i])
                       /\ \A k \in 1..(i - 1) : scoreOf(l[k]) < scoreOf(l[i])
             rest == [k \in 1..(Len(l) - 1) |-> IF k < best THEN l[k] ELSE l[k + 1]]
         IN  <<l[best]>> \o sortByScore(rest)

\* JobSearchSection.tsx 266
withState(found) ==
    [i \in 1..Len(found) |-> Spread(found[i], [analysis |-> None, isAnalyzing |-> TRUE])]

\* An updater that leaves a job analyzing when its analysis failed.
applyAnalysisOnSuccessOnly(currentJobs, job, analysis) ==
    [i \in 1..Len(currentJobs) |->
        IF currentJobs[i].id = job.id /\ analysis # None
        THEN Spread(currentJobs[i], [analysis |-> analysis, isAnalyzing |-> FALSE])
        ELSE currentJobs[i]]

\* JobSearchSection.tsx 273-279: the updater given to setJobs
applyAnalysis(currentJobs, job, analysis) ==
    [i \in 1..Len(currentJobs) |->
        IF currentJobs[i].id = job.id
        THEN Spread(currentJobs[i], [analysis |-> analysis, isAnalyzing |-> FALSE])
        ELSE currentJobs[i]]

\* A loop that starts every analysis at once instead of awaiting each.
loopCallsAllAtOnce(s, found, finished) ==
    IF finished = 0 THEN {[search |-> s, idx |-> i] : i \in 1..Len(found)} ELSE {}

\* JobSearchSection.tsx 271-272: the call the loop makes once `finished` of its
\* calls have returned: the next job's, if there is one
loopCalls(s, found, finished) ==
    IF finished < Len(found) THEN {[search |-> s, idx |-> finished + 1]} ELSE {}

IdleProc == [pc |-> "idle", found |-> <<>>, idx |-> 0]

\* JobSearchSection.tsx 249-258 (keyword form 283-295, 755: the button is
\* disabled while isSearching): the search starts and awaits searchJobsSafe
performSearch(s) ==
    /\ procs[s].pc = "idle"
    /\ \A r \in 1..(s - 1) : procs[r].pc # "idle"
    /\ ~isSearching
    /\ isSearching' = TRUE
    /\ jobs' = <<>>
    /\ procs' = [procs EXCEPT ![s].pc = "searching"]
    /\ UNCHANGED calls
    /\ UNCHANGED notSearch

\* JobSearchSection.tsx 258-272: searchJobsSafe returns; with no job the search
\* ends, else the list is shown and the loop calls analyzeJobMatchSafe for the
\* first job
searchReturns(s) ==
    /\ procs[s].pc = "searching"
    /\ \E found \in SearchResults :
        IF Len(found) = 0
        THEN /\ isSearching' = FALSE
             /\ procs' = [procs EXCEPT ![s].pc = "done"]
             /\ UNCHANGED <<jobs, calls>>
        ELSE /\ jobs' = sortByScore(withState(found))
             /\ isSearching' = FALSE
             /\ procs' = [procs EXCEPT ![s] = [pc |-> "analyzing", found |-> withState(found), idx |-> 1]]
             /\ calls' = calls \cup loopCalls(s, found, 0)
    /\ UNCHANGED notSearch

\* JobSearchSection.tsx 272-280: a call of analyzeJobMatchSafe returns; the
\* updater is applied to the list shown now and the loop goes on
analysisReturns(c) ==
    /\ c \in calls
    /\ LET p == procs[c.search]
           job == p.found[c.idx]
           more == loopCalls(c.search, p.found, c.idx)
       IN  /\ \E analysis \in AnalysisResults(job) :
                jobs' = sortByScore(applyAnalysis(jobs, job, analysis))
           /\ calls' = (calls \ {c}) \cup more
           /\ procs' = [procs EXCEPT ![c.search] =
                           IF c.idx < Len(p.found)
                           THEN [p EXCEPT !.idx = c.idx + 1]
                           ELSE [p EXCEPT !.pc = "done"]]
    /\ UNCHANGED isSearching
    /\ UNCHANGED notSearch

\* JobSearchSection.tsx 570-576: a click on a search mode clears the list
searchModeToggle ==
    /\ jobs # <<>>
    /\ jobs' = <<>>
    /\ UNCHANGED <<isSearching, procs, calls>>
    /\ UNCHANGED notSearch

-----------------------------------------------------------------------------
(* Response text: cleanJson and JSON.parse *)

\* A text is a sequence of symbols: the characters that matter to cleanJson and
\* to the JSON grammar stand for themselves, every other run of characters is
\* one symbol (a word).
\* The backtick is written as a word, as a string of this notation cannot hold it.
Quote == "\""
Backtick == "<backtick>"
Whitespace == {" ", "\n"}

\* Removal of every occurrence of pat, found left to right:
\* String.prototype.replace with a global pattern and ''
RECURSIVE removeAll(_, _)
removeAll(text, pat) ==
    IF Len(text) < Len(pat) THEN text
    ELSE IF SubSeq(text, 1, Len(pat)) = pat
         THEN removeAll(SubSeq(text, Len(pat) + 1, Len(text)), pat)
         ELSE <<Head(text)>> \o removeAll(Tail(text), pat)

RECURSIVE trimStart(_)
trimStart(text) ==
    IF text # <<>> /\ Head(text) \in Whitespace THEN trimStart(Tail(text)) ELSE text

RECURSIVE trimEnd(_)
trimEnd(text) ==
    IF text # <<>> /\ text[Len(text)] \in Whitespace
    THEN trimEnd(SubSeq(text, 1, Len(text) - 1)) ELSE text

\* String.prototype.trim
trim(text) == trimEnd(trimStart(text))

\* gemini.ts 153-155
cleanJson(text) ==
    trim(removeAll(removeAll(text, <<Backtick, Backtick, Backtick, "json">>),
                   <<Backtick, Backtick, Backtick>>))

\* The values of JavaScript that JSON.parse produces, and undefined.  A string
\* is its sequence of symbols, an object a function from its keys (strings).
JUndefined == [t |-> "undefined", v |-> <<>>]
JNull == [t |-> "null", v |-> <<>>]
JBool(b) == [t |-> "bool", v |-> b]
JNum(n) == [t |-> "num", v |-> n]
JStr(s) == [t |-> "str", v |-> s]
JArr(a) == [t |-> "arr", v |-> a]
JObj(o) == [t |-> "obj", v |-> o]

\* The string of a word; the empty string has no symbol.
Text(word) == IF word = "" THEN <<>> ELSE <<word>>

\* The object with the fields of record r.
Obj(r) == [k \in {<<f>> : f \in DOMAIN r} |-> r[k[1]]]

\* The number literals of the texts and their values.
NumberValue == ("0" :> 0) @@ ("40" :> 40) @@ ("85" :> 85) @@ ("140" :> 140)

\* The result of a parsing step: the value and the text after it, or failure.
ParseFail == [ok |-> FALSE, val |-> JUndefined, rest |-> <<>>]
ParseOk(val, rest) == [ok |-> TRUE, val |-> val, rest |-> rest]

\* Index of the first symbol c of text, 0 if there is none.
indexOf(text, c) ==
    IF \E i \in 1..Len(text) : text[i] = c
    THEN CHOOSE i \in 1..Len(text) : text[i] = c /\ \A k \in 1..(i - 1) : text[k] # c
    ELSE 0

\* ECMA-404 string, text starting at its opening quote: up to the next quote,
\* with no line break inside (escapes do not occur in the texts)
parseString(text) ==
    LET body == Tail(text)
        close == indexOf(body, Quote)
        chars == SubSeq(body, 1, close - 1)
    IN  IF close = 0 \/ \E i \in 1..Len(chars) : chars[i] = "\n"
        THEN ParseFail
        ELSE ParseOk(JStr(chars), SubSeq(body, close + 1, Len(body)))

\* ECMA-404 value, object members and array elements
RECURSIVE parseValue(_), parseMembers(_, _), parseElements(_, _)
parseValue(text) ==
    LET t == trimStart(text)
    IN  IF t = <<>> THEN ParseFail
        ELSE IF Head(t) = "{"
             THEN LET u == trimStart(Tail(t))
                  IN  IF u # <<>> /\ Head(u) = "}"
                      THEN ParseOk(JObj(EmptyObject), Tail(u))
                      ELSE parseMembers(u, EmptyObject)
        ELSE IF Head(t) = "["
             THEN LET u == trimStart(Tail(t))
                  IN  IF u # <<>> /\ Head(u) = "]"
                      THEN ParseOk(JArr(<<>>), Tail(u))
                      ELSE parseElements(u, <<>>)
        ELSE IF Head(t) = Quote THEN parseString(t)
        ELSE IF Head(t) \in DOMAIN NumberValue THEN ParseOk(JNum(NumberValue[Head(t)]), Tail(t))
        ELSE IF Head(t) = "null" THEN ParseOk(JNull, Tail(t))
        ELSE IF Head(t) = "true" THEN ParseOk(JBool(TRUE), Tail(t))
        ELSE IF Head(t) = "false" THEN ParseOk(JBool(FALSE), Tail(t))
        ELSE ParseFail

parseMembers(text, acc) ==
    IF text = <<>> \/ Head(text) # Quote THEN ParseFail
    ELSE LET key == parseString(text)
             colon == trimStart(key.rest)
         IN  IF ~key.ok \/ colon = <<>> \/ Head(colon) # ":" THEN ParseFail
             ELSE LET val == parseValue(Tail(colon))
                      next == trimStart(val.rest)
                      members == Spread(acc, key.val.v :> val.val)
                  IN  IF ~val.ok \/ next = <<>> THEN ParseFail
                      ELSE IF Head(next) = "}" THEN ParseOk(JObj(members), Tail(next))
                      ELSE IF Head(next) = "," THEN parseMembers(trimStart(Tail(next)), members)
                      ELSE ParseFail

parseElements(text, acc) ==
    LET val == parseValue(text)
        next == trimStart(val.rest)
    IN  IF ~val.ok \/ next = <<>> THEN ParseFail
        ELSE IF Head(next) = "]" THEN ParseOk(JArr(Append(acc, val.val)), Tail(next))
        ELSE IF Head(next) = "," THEN parseElements(Tail(next), Append(acc, val.val))
        ELSE ParseFail

\* JSON.parse: one value and nothing but white space after it; a failure is the
\* SyntaxError it throws
JSONparse(text) ==
    LET parsed == parseValue(text)
    IN  IF parsed.ok /\ trimStart(parsed.rest) = <<>> THEN parsed ELSE ParseFail

\* The value of o[k] for a value o of JavaScript that is not null or undefined.
Member(o, k) == IF o.t = "obj" /\ k \in DOMAIN o.v THEN o.v[k] ELSE JUndefined

\* ToBoolean
JsTruthy(x) ==
    CASE x.t \in {"undefined", "null"} -> FALSE
      [] x.t = "bool" -> x.v
      [] x.t = "num" -> x.v # 0
      [] x.t = "str" -> x.v # <<>>
      [] OTHER -> TRUE

\* The properties { ...x } copies: those of an object; none of null, a boolean,
\* a number, an empty string or an empty array.
ownProperties(x) == IF x.t = "obj" THEN x.v ELSE EmptyObject

-----------------------------------------------------------------------------
(* The service functions of gemini.ts and their Safe wrappers *)

\* The settlement of a promise.
Pending == [kind |-> "pending"]
Return(val) == [kind |-> "return", val |-> val]
Throw(error) == [kind |-> "throw", error |-> error]

\* gemini.ts 517, 341, 344, 228: the messages of the errors thrown
SearchCapabilityError == "Job Search requires Google Grounding (Gemini)."
VisionError == "The selected parsing model does not support Vision."
PdfError == "PDF parsing is primarily supported by Google Gemini."
BaseUrlMissing == "Base URL is missing for this provider."

\* The error of a provider call that fails (the SDK rejects, fetch rejects, the
\* status is not OK or the body cannot be read), the error of a FileReader that
\* fails and the SyntaxError of JSON.parse.
ProviderFailure == "provider request failed"
FileReadError == "file could not be read"
SyntaxError == "SyntaxError"

\* What comes back from the provider: nothing yet, a failure, a status that is
\* not OK (where the function tells it from a failure), or the text taken from
\* the answer.
NoResponse == [kind |-> "none", text |-> <<>>]
Failure == [kind |-> "failure", text |-> <<>>]
NotOk == [kind |-> "notok", text |-> <<>>]
TextOf(text) == [kind |-> "text", text |-> text]

\* The call in progress: the function, where it stands, whether it was called
\* through its Safe wrapper, its arguments (listing: those of
\* fetchProviderModels; task: the task whose config generateContent is given),
\* whether its file has been read and the provider's answer.
NoOp ==
    [name |-> "none", pc |-> "idle", safe |-> FALSE, job |-> [id |-> ""], task |-> NoTask,
     resumes |-> <<>>, mime |-> "", read |-> FALSE, response |-> NoResponse,
     listing |-> [provider |-> "", apiKey |-> "", baseUrl |-> Undefined]]

\* The arguments of the calls: Job and Resume (types.ts 1-17) reduced to their
\* ids, and the file types ResumeSection.tsx 67 accepts.
AnalyzedJobs == {[id |-> "1"]}
ResumeLists == {<<>>, <<[id |-> "r1"]>>, <<[id |-> "r1"], [id |-> "r2"]>>}
MimeTypes == {"application/pdf", "image/png"}

\* An outbound request: where it goes and the key and model it carries.
Request(base, path, config) ==
    [base |-> base, path |-> path, apiKey |-> config.apiKey, model |-> config.modelName]

\* gemini.ts 167-181, 311-334, 441, 533-541: a call through the Google SDK
sdkRequest(config) == Request("google-sdk", "models.generateContent", config)

\* gemini.ts 220-225
baseUrlOf(config) ==
    CASE config.provider = "openai" -> "https://api.openai.com/v1"
      [] config.provider = "deepseek" -> "https://api.deepseek.com"
      [] config.provider = "groq" -> "https://api.groq.com/openai/v1"
      [] config.provider = "openrouter" -> "https://openrouter.ai/api/v1"
      [] config.provider = "custom" /\ ~Truthy(Get(config, "baseUrl")) -> LocalBaseUrl
      [] OTHER -> Get(config, "baseUrl")

\* gemini.ts 158-263, up to the request: the request generateContent sends, or
\* the error it throws before sending one
generateContent(config) ==
    IF config.provider = "google" THEN Return(sdkRequest(config))
    ELSE IF config.provider = "anthropic"
         THEN Return(Request("https://api.anthropic.com", "/v1/messages", config))
    ELSE IF ~Truthy(baseUrlOf(config)) THEN Throw(BaseUrlMissing)
    ELSE Return(Request(baseUrlOf(config), "/chat/completions", config))

\* gemini.ts 347-352
visionBaseUrlOf(config) ==
    CASE config.provider = "openai" -> "https://api.openai.com/v1"
      [] config.provider = "groq" -> "https://api.groq.com/openai/v1"
      [] config.provider = "openrouter" -> "https://openrouter.ai/api/v1"
      [] config.provider = "custom" /\ ~Truthy(Get(config, "baseUrl")) -> LocalBaseUrl
      [] ~Truthy(Get(config, "baseUrl")) -> "https://api.openai.com/v1"
      [] OTHER -> Get(config, "baseUrl")

\* A gate that rejects only a config failing both conditions.
searchGateBoth(config) == ~config.supportsSearch /\ config.provider # "google"

\* gemini.ts 516: the condition under which searchJobs throws at once
searchGate(config) == ~config.supportsSearch \/ config.provider # "google"

\* A gate that looks at the file type before the vision capability.
visionGatePdfFirst(config, mimeType) ==
    IF mimeType = "application/pdf" THEN Some(PdfError)
    ELSE IF ~config.supportsVision THEN Some(VisionError)
    ELSE None

\* gemini.ts 340-345: the error the vision path throws before its request, if any
visionGate(config, mimeType) ==
    IF ~config.supportsVision THEN Some(VisionError)
    ELSE IF mimeType = "application/pdf" THEN Some(PdfError)
    ELSE None

\* gemini.ts 547: Math.random().toString(36).substr(2, 9), which is empty when
\* Math.random() gives 0
RandomIds == {"k3j9x2", ""}

\* gemini.ts 545-551: a job of the answer with its missing fields filled in
backfill(j, generated) ==
    JObj(Spread(ownProperties(j),
        Obj([id |-> IF JsTruthy(Member(j, <<"id">>)) THEN Member(j, <<"id">>)
                    ELSE JStr(Text(generated)),
             location |-> IF JsTruthy(Member(j, <<"location">>)) THEN Member(j, <<"location">>)
                          ELSE JStr(<<"Unknown">>),
             summary |-> IF JsTruthy(Member(j, <<"summary">>)) THEN Member(j, <<"summary">>)
                         ELSE JStr(<<"No description available.">>),
             source |-> IF JsTruthy(Member(j, <<"source">>)) THEN Member(j, <<"source">>)
                        ELSE JStr(<<"Web">>)])))

\* A searchJobs that lets the error of its try block out.
searchJobsParseThrows(text, generated) ==
    LET parsed == JSONparse(cleanJson(IF text = <<>> THEN <<"[", "]">> ELSE text))
    IN  IF ~parsed.ok THEN Throw(SyntaxError)
        ELSE IF parsed.val.t # "arr" THEN Throw("TypeError")
        ELSE IF \E i \in 1..Len(parsed.val.v) : parsed.val.v[i].t = "null" THEN Throw("TypeError")
        ELSE Return(JArr([i \in 1..Len(parsed.val.v) |-> backfill(parsed.val.v[i], generated[i])]))

\* gemini.ts 543-555: the try block of searchJobs on the answer's text.  map
\* throws on a value that is no array and j.id on an element that is null.
searchJobsParse(text, generated) ==
    LET parsed == JSONparse(cleanJson(IF text = <<>> THEN <<"[", "]">> ELSE text))
    IN  IF ~parsed.ok THEN Return(JArr(<<>>))
        ELSE IF parsed.val.t # "arr" THEN Return(JArr(<<>>))
        ELSE IF \E i \in 1..Len(parsed.val.v) : parsed.val.v[i].t = "null" THEN Return(JArr(<<>>))
        ELSE Return(JArr([i \in 1..Len(parsed.val.v) |-> backfill(parsed.val.v[i], generated[i])]))

\* A searchJobs whose provider call is inside its try block.
searchJobsCallInTry(response, generated) ==
    IF response.kind = "failure" THEN Return(JArr(<<>>))
    ELSE searchJobsParse(response.text, generated)

\* gemini.ts 533-555: searchJobs from the provider's answer on
searchJobsAfterCall(response, generated) ==
    IF response.kind = "failure" THEN Throw(ProviderFailure)
    ELSE searchJobsParse(response.text, generated)

\* A fallback that names the last resume.
analysisFallbackLastResume(job, resumes) ==
    Obj([jobId |-> JStr(Text(job.id)),
         bestResumeId |-> IF resumes # <<>> THEN JStr(Text(resumes[Len(resumes)].id)) ELSE JStr(<<>>),
         matchScore |-> JNum(0),
         reasoning |-> JStr(<<"Analysis failed due to LLM output format error.">>),
         missingKeywords |-> JArr(<<>>)])

\* gemini.ts 644-650: the analysis returned when the text cannot be parsed
analysisFallback(job, resumes) ==
    Obj([jobId |-> JStr(Text(job.id)),
         bestResumeId |-> IF resumes # <<>> THEN JStr(Text(resumes[1].id)) ELSE JStr(<<>>),
         matchScore |-> JNum(0),
         reasoning |-> JStr(<<"Analysis failed due to LLM output format error.">>),
         missingKeywords |-> JArr(<<>>)])

\* gemini.ts 639-651: the try block of analyzeJobMatch on the answer's text
analyzeJobMatchParse(text, job, resumes) ==
    LET parsed == JSONparse(cleanJson(text))
    IN  IF parsed.ok
        THEN Return(JObj(Spread(ownProperties(parsed.val), Obj([jobId |-> JStr(Text(job.id))]))))
        ELSE Return(JObj(analysisFallback(job, resumes)))

\* gemini.ts 630-651: analyzeJobMatch from the provider's answer on
analyzeJobMatchAfterCall(response, job, resumes) ==
    IF response.kind = "failure" THEN Throw(ProviderFailure)
    ELSE analyzeJobMatchParse(response.text, job, resumes)

\* gemini.ts 334, 383-386: parseResumeFromFile from the provider's answer on; the
\* SDK path parses the text as it is, the vision path after cleanJson
parseResumeAfterCall(response, config) ==
    IF response.kind = "failure" THEN Throw(ProviderFailure)
    ELSE LET text == IF response.text = <<>> THEN <<"{", "}">> ELSE response.text
             parsed == IF config.provider = "google" THEN JSONparse(text)
                       ELSE JSONparse(cleanJson(text))
         IN  IF parsed.ok THEN Return(parsed.val) ELSE Throw(SyntaxError)

\* gemini.ts 684-706
searchJobsSafe(result) == IF result.kind = "throw" THEN Return(JArr(<<>>)) ELSE result

\* gemini.ts 716-729
analyzeJobMatchSafe(result) == IF result.kind = "throw" THEN Return(JNull) ELSE result

\* gemini.ts 656-677: result.confidenceScore throws on null, inside the try
parseResumeFromFileSafe(result) ==
    IF result.kind = "throw" \/ result.val.t = "null" THEN Return(JNull) ELSE result

\* gemini.ts 700-714
extractJobDetailsSafe(result) == IF result.kind = "throw" THEN Return(JNull) ELSE result

\* The wrapper's result, for a call made through the wrapper.
safeResult(name, result) ==
    CASE name = "searchJobs" -> searchJobsSafe(result)
      [] name = "analyzeJobMatch" -> analyzeJobMatchSafe(result)
      [] name = "parseResumeFromFile" -> parseResumeFromFileSafe(result)
      [] name = "extractJobDetailsFromUrl" -> extractJobDetailsSafe(result)

-----------------------------------------------------------------------------
(* The calls as steps: up to the provider request, and from its answer on *)

\* The text of a string literal of one word.
Lit(word) == <<Quote, word, Quote>>

\* A text inside a Markdown fence, with and without the language tag.
Fenced(text) ==
    <<Backtick, Backtick, Backtick, "json", "\n">> \o text \o <<"\n", Backtick, Backtick, Backtick>>
FencedNoTag(text) ==
    <<Backtick, Backtick, Backtick, "\n">> \o text \o <<"\n", Backtick, Backtick, Backtick, "\n">>

Prose == <<"I", " ", "cannot", " ", "help", " ", "with", " ", "that.">>

\* Answers to the prompt of analyzeJobMatch (gemini.ts 609-619).
AnalysisJson ==
    <<"{">> \o Lit("bestResumeId") \o <<":", " ">> \o Lit("r2") \o <<",", "\n">>
        \o Lit("matchScore") \o <<":", " ", "85", ",">>
        \o Lit("reasoning") \o <<":">> \o Lit("Strong fit") \o <<",">>
        \o Lit("missingKeywords") \o <<":", "[">> \o Lit("sql") \o <<"]", "}">>

AnalysisJsonScoreOnly == <<"{">> \o Lit("matchScore") \o <<":", " ", "140", "}">>

AnalysisTexts ==
    {AnalysisJson, Fenced(AnalysisJson), FencedNoTag(AnalysisJson),
     <<"Here", " ", "it", " ", "is:", "\n">> \o AnalysisJson,
     SubSeq(AnalysisJson, 1, 12), Prose, Fenced(Prose), <<>>, <<"null">>,
     AnalysisJsonScoreOnly}

\* Answers to the prompt of searchJobs (gemini.ts 525-531).
JobJson ==
    <<"{">> \o Lit("id") \o <<":">> \o Lit("1") \o <<",">>
        \o Lit("title") \o <<":">> \o Lit("Backend Engineer") \o <<",">>
        \o Lit("location") \o <<":">> \o Lit("Remote") \o <<"}">>
JobJsonNoId ==
    <<"{">> \o Lit("title") \o <<":">> \o Lit("Data Engineer") \o <<",">>
        \o Lit("source") \o <<":">> \o Lit("LinkedIn") \o <<"}">>
JobJsonFull ==
    <<"{">> \o Lit("id") \o <<":">> \o Lit("j7") \o <<",">>
        \o Lit("title") \o <<":">> \o Lit("Platform Engineer") \o <<",">>
        \o Lit("location") \o <<":">> \o Lit("Berlin") \o <<",">>
        \o Lit("summary") \o <<":">> \o Lit("Build the platform") \o <<",">>
        \o Lit("source") \o <<":">> \o Lit("Indeed") \o <<"}">>
JobJsonZeroId ==
    <<"{">> \o Lit("id") \o <<":", "0", ",">>
        \o Lit("title") \o <<":">> \o Lit("Data Engineer") \o <<"}">>
JobsJson == <<"[">> \o JobJson \o <<",", "\n">> \o JobJsonNoId \o <<"]">>

SearchTexts ==
    {JobsJson, Fenced(JobsJson), <<"[", "]">>, <<>>, JobJson, Prose, <<"[", "null", "]">>,
     <<"null">>, SubSeq(JobsJson, 1, 9),
     <<"[">> \o JobJsonFull \o <<"]">>, <<"[">> \o JobJsonZeroId \o <<"]">>}

\* Answers to the prompt of parseResumeFromFile (gemini.ts 299-312).
ResumeJson ==
    <<"{">> \o Lit("name") \o <<":">> \o Lit("Ada - Engineer") \o <<",">>
        \o Lit("content") \o <<":">> \o Lit("Ten years of") \o <<",">>
        \o Lit("confidenceScore") \o <<":", "85", "}">>

ResumeTexts == {ResumeJson, Fenced(ResumeJson), Prose, <<>>, <<"null">>}

\* The end of a call: the function's own result and, for a call made through
\* the wrapper, the wrapper's.
Finish(call, result) ==
    /\ op' = [call EXCEPT !.pc = "done"]
    /\ outcome' = result
    /\ safeOutcome' = IF call.safe THEN safeResult(call.name, result) ELSE Pending

\* The call goes on to await the provider's answer to its request.
Send(call, request) ==
    /\ op' = [call EXCEPT !.pc = "awaiting"]
    /\ net' = Append(net, request)
    /\ UNCHANGED <<outcome, safeOutcome>>

\* gemini.ts 513-541 (through searchJobsSafe, 684-706, when safe)
searchJobs ==
    \E safe \in BOOLEAN :
        /\ op.pc = "idle"
        /\ LET config == getTaskSettings("search")
               call == [NoOp EXCEPT !.name = "searchJobs", !.safe = safe]
           IN  IF searchGate(config)
               THEN Finish(call, Throw(SearchCapabilityError)) /\ UNCHANGED net
               ELSE Send(call, sdkRequest(config))
        /\ UNCHANGED notCalls

\* gemini.ts 541-555: the SDK call of searchJobs settles
searchJobsAnswered ==
    \E response \in {Failure} \cup {TextOf(t) : t \in SearchTexts},
       generated \in [1..MaxJobs -> RandomIds] :
        /\ op.name = "searchJobs" /\ op.pc = "awaiting"
        /\ Finish([op EXCEPT !.response = response], searchJobsAfterCall(response, generated))
        /\ UNCHANGED net
        /\ UNCHANGED notCalls

\* gemini.ts 604-637 (through analyzeJobMatchSafe, 716-729, when safe)
analyzeJobMatch ==
    \E job \in AnalyzedJobs, resumes \in ResumeLists, safe \in BOOLEAN :
        /\ op.pc = "idle"
        /\ LET config == getTaskSettings("matching")
               call == [NoOp EXCEPT !.name = "analyzeJobMatch", !.safe = safe,
                                    !.job = job, !.resumes = resumes]
               start == generateContent(config)
           IN  IF start.kind = "throw"
               THEN Finish(call, start) /\ UNCHANGED net
               ELSE Send(call, start.val)
        /\ UNCHANGED notCalls

\* gemini.ts 632-651: generateContent settles
analyzeJobMatchAnswered ==
    \E response \in {Failure} \cup {TextOf(t) : t \in AnalysisTexts} :
        /\ op.name = "analyzeJobMatch" /\ op.pc = "awaiting"
        /\ Finish([op EXCEPT !.response = response],
                  analyzeJobMatchAfterCall(response, op.job, op.resumes))
        /\ UNCHANGED net
        /\ UNCHANGED notCalls

\* gemini.ts 294-296 (through parseResumeFromFileSafe, 656-677, when safe): the
\* call reads its config and awaits the file's content
parseResumeFromFile ==
    \E mimeType \in MimeTypes, safe \in BOOLEAN :
        /\ op.pc = "idle"
        /\ op' = [NoOp EXCEPT !.name = "parseResumeFromFile", !.safe = safe,
                              !.mime = mimeType, !.pc = "reading"]
        /\ UNCHANGED <<net, outcome, safeOutcome>>
        /\ UNCHANGED notCalls

\* gemini.ts 275-284, 296-380: the FileReader settles; on success the call goes
\* on to its request
fileToBase64Settled ==
    \E read \in BOOLEAN :
        /\ op.name = "parseResumeFromFile" /\ op.pc = "reading"
        /\ LET config == getTaskSettings("parsing")
               call == [op EXCEPT !.read = read]
           IN  IF ~read THEN Finish(call, Throw(FileReadError)) /\ UNCHANGED net
               ELSE IF config.provider = "google" THEN Send(call, sdkRequest(config))
               ELSE IF visionGate(config, op.mime) # None
                    THEN Finish(call, Throw(visionGate(config, op.mime)[1])) /\ UNCHANGED net
               ELSE Send(call, Request(visionBaseUrlOf(config), "/chat/completions", config))
        /\ UNCHANGED notCalls

\* gemini.ts 334, 376-386: the provider call of parseResumeFromFile settles
parseResumeAnswered ==
    \E response \in {Failure} \cup {TextOf(t) : t \in ResumeTexts} :
        /\ op.name = "parseResumeFromFile" /\ op.pc = "awaiting"
        /\ Finish([op EXCEPT !.response = response],
                  parseResumeAfterCall(response, getTaskSettings("parsing")))
        /\ UNCHANGED net
        /\ UNCHANGED notCalls

\* The configs a user saves: the defaults with one provider chosen, on the
\* global tab or as the override of a task (SettingsModal.tsx 233-244, 359-378:
\* the search box can be ticked for google only, the vision box for any).
FormUpdates ==
    {Spread(c, [modelName |-> defaultModel[c.provider],
                baseUrl |-> IF c.provider = "custom" THEN LocalBaseUrl ELSE Undefined]) :
        c \in {x \in [provider : LLMProvider, apiKey : {"k1"},
                      supportsSearch : BOOLEAN, supportsVision : BOOLEAN] :
                  x.supportsSearch => x.provider = "google"}}

SavedItems ==
    {NoItem} \cup {saveLLMSettings(handleUpdateConfig(DEFAULT_SETTINGS, tab, updates)) :
                      tab \in Tabs, updates \in FormUpdates}

-----------------------------------------------------------------------------
(* extractJobDetailsFromUrl: grounded search, then proxy scrape and extraction *)

\* gemini.ts 506, 508: the messages of the errors of the catch block; the second
\* carries the message of the error caught
GroundingFailed == "Google Grounding failed to find details. The page might be indexed poorly."
ScrapeFailed == "Extraction failed. ... we attempted to scrape the page via a proxy but failed. Ensure the URL is public."

\* A throw of the scrape error with the message it carries.
ThrowCarrying(error, cause) == [kind |-> "throw", error |-> error, cause |-> cause]

\* gemini.ts 467, 470 and the errors of fetch, of res.json() and of a property
\* read on null: the messages an error caught at 503 may have; "" is an error
\* without message.
ProxyFailures == {"Failed to fetch", "Proxy request failed", "Empty response from proxy", ""}
TypeErrorMessage == "Cannot read properties of null"

\* gemini.ts 464-465: the request to the scraping proxy; it carries no key
proxyRequest ==
    [base |-> "https://api.allorigins.win", path |-> "/get", apiKey |-> "", model |-> ""]

\* gemini.ts 424: the condition of Strategy 1
groundingInUse(config) == config.provider = "google" /\ config.supportsSearch

\* x || d
orDefault(x, d) == IF JsTruthy(x) THEN x ELSE d

\* gemini.ts 451-458: the try block of Strategy 1 on the answer's text: the
\* details, or nothing when JSON.parse or the read of data.title throws
groundingParse(text) ==
    LET parsed == JSONparse(cleanJson(IF text = <<>> THEN <<"{", "}">> ELSE text))
    IN  IF ~parsed.ok \/ parsed.val.t = "null" THEN None
        ELSE Some(JObj(Obj([title |-> orDefault(Member(parsed.val, <<"title">>), JStr(<<>>)),
                            company |-> orDefault(Member(parsed.val, <<"company">>), JStr(<<>>)),
                            summary |-> orDefault(Member(parsed.val, <<"summary">>), JStr(<<>>))])))

\* The grounded call with its SDK call inside the try block: a rejection falls
\* through to Strategy 2 as a parse failure does.
groundingStepCallInTry(response) ==
    IF response.kind = "failure" \/ groundingParse(response.text) = None THEN None
    ELSE Some(Return(groundingParse(response.text)[1]))

\* gemini.ts 441-461: Strategy 1 from the settling of the SDK call on: the
\* outcome of the function, or nothing when Strategy 2 is next. The call is
\* awaited before the try block, so its rejection is the function's.
groundingStep(response) ==
    IF response.kind = "failure" THEN Some(Throw(ProviderFailure))
    ELSE IF groundingParse(response.text) = None THEN None
    ELSE Some(Return(groundingParse(response.text)[1]))

\* The catch block without its test of the config: the scrape error always.
strategy2ErrorAlwaysScrape(config, cause) ==
    ThrowCarrying(ScrapeFailed, IF cause = "" THEN "Unknown" ELSE cause)

\* gemini.ts 505-508: the error thrown for an error with message cause caught
\* in Strategy 2
strategy2Error(config, cause) ==
    IF groundingInUse(config) THEN Throw(GroundingFailed)
    ELSE ThrowCarrying(ScrapeFailed, IF cause = "" THEN "Unknown" ELSE cause)

\* gemini.ts 496-508: Strategy 2 from the answer of generateContent on
extractionAfterCall(response, config) ==
    IF response.kind = "failure" THEN strategy2Error(config, ProviderFailure)
    ELSE LET parsed == JSONparse(cleanJson(response.text))
         IN  IF ~parsed.ok THEN strategy2Error(config, SyntaxError)
             ELSE IF parsed.val.t = "null" THEN strategy2Error(config, TypeErrorMessage)
             ELSE Return(JObj(Obj(
                    [title |-> orDefault(Member(parsed.val, <<"title">>), JStr(<<"Unknown">>)),
                     company |-> orDefault(Member(parsed.val, <<"company">>), JStr(<<"Unknown">>)),
                     summary |-> orDefault(Member(parsed.val, <<"summary">>),
                                           JStr(<<"No description found">>))])))

\* Answers to the prompts of extractJobDetailsFromUrl (gemini.ts 425-438, 480-489).
DetailsJson ==
    <<"{">> \o Lit("title") \o <<":">> \o Lit("Backend Engineer") \o <<",">>
        \o Lit("company") \o <<":">> \o Lit("Acme") \o <<",">>
        \o Lit("summary") \o <<":">> \o Lit("Build APIs") \o <<"}">>
DetailsJsonNoCompany ==
    <<"{">> \o Lit("title") \o <<":">> \o Lit("Backend Engineer") \o <<"}">>

DetailsTexts ==
    {DetailsJson, Fenced(DetailsJson), DetailsJsonNoCompany, Prose, <<>>, <<"null">>}

\* The page the proxy returns in its contents field.
PageHtml == <<"<html>", "Backend Engineer at Acme", "</html>">>

\* gemini.ts 420-441, 464-465: the call; with grounding in use it awaits the
\* grounded SDK call, else the proxy
extractJobDetailsFromUrl ==
    \E safe \in BOOLEAN :
        /\ op.pc = "idle"
        /\ LET config == getTaskSettings("search")
               call == [NoOp EXCEPT !.name = "extractJobDetailsFromUrl", !.safe = safe]
           IN  IF groundingInUse(config)
               THEN /\ op' = [call EXCEPT !.pc = "grounding"]
                    /\ net' = Append(net, sdkRequest(config))
               ELSE /\ op' = [call EXCEPT !.pc = "scraping"]
                    /\ net' = Append(net, proxyRequest)
        /\ UNCHANGED <<outcome, safeOutcome>>
        /\ UNCHANGED notCalls

\* gemini.ts 441-465: the grounded call settles: its rejection leaves the
\* function, its details are returned, and without details the proxy is asked
groundingAnswered ==
    \E response \in {Failure} \cup {TextOf(t) : t \in DetailsTexts} :
        /\ op.name = "extractJobDetailsFromUrl" /\ op.pc = "grounding"
        /\ LET call == [op EXCEPT !.response = response]
               step == groundingStep(response)
           IN  IF step # None
               THEN Finish(call, step[1]) /\ UNCHANGED net
               ELSE /\ op' = [call EXCEPT !.pc = "scraping"]
                    /\ net' = Append(net, proxyRequest)
                    /\ UNCHANGED <<outcome, safeOutcome>>
        /\ UNCHANGED notCalls

\* gemini.ts 465-503: the proxy settles: with the page's contents the function
\* calls generateContent, any failure is caught at 503
proxyAnswered ==
    \E cause \in ProxyFailures \cup {"none"} :
        /\ op.name = "extractJobDetailsFromUrl" /\ op.pc = "scraping"
        /\ LET config == getTaskSettings("search")
               start == generateContent(config)
           IN  IF cause # "none"
               THEN Finish([op EXCEPT !.response = Failure], strategy2Error(config, cause))
                    /\ UNCHANGED net
               ELSE IF start.kind = "throw"
                    THEN Finish([op EXCEPT !.response = TextOf(PageHtml)],
                                strategy2Error(config, start.error))
                         /\ UNCHANGED net
               ELSE /\ op' = [op EXCEPT !.response = TextOf(PageHtml), !.pc = "extracting"]
                    /\ net' = Append(net, start.val)
                    /\ UNCHANGED <<outcome, safeOutcome>>
        /\ UNCHANGED notCalls

\* gemini.ts 491-509: generateContent settles
extractionAnswered ==
    \E response \in {Failure} \cup {TextOf(t) : t \in DetailsTexts} :
        /\ op.name = "extractJobDetailsFromUrl" /\ op.pc = "extracting"
        /\ Finish([op EXCEPT !.response = response],
                  extractionAfterCall(response, getTaskSettings("search")))
        /\ UNCHANGED net
        /\ UNCHANGED notCalls

-----------------------------------------------------------------------------
(* fetchProviderModels: the model catalog of a provider *)

\* A model of a hardcoded catalog (gemini.ts 59-64, 69-75, 130-147).
Model(id, name, vision) == [id |-> <<id>>, name |-> <<name>>, supportsVision |-> vision]
FreeModel(id, name, vision) ==
    [id |-> <<id>>, name |-> <<name>>, supportsVision |-> vision, isFree |-> TRUE]

\* gemini.ts 59-64
GoogleModels ==
    <<FreeModel("gemini-2.0-flash-exp", "Gemini 2.0 Flash (Experimental)", TRUE),
      FreeModel("gemini-1.5-pro", "Gemini 1.5 Pro", TRUE),
      FreeModel("gemini-1.5-flash", "Gemini 1.5 Flash", TRUE),
      FreeModel("gemini-1.5-flash-8b", "Gemini 1.5 Flash 8B", TRUE)>>

\* gemini.ts 69-75
AnthropicModels ==
    <<Model("claude-3-5-sonnet-20241022", "Claude 3.5 Sonnet", TRUE),
      Model("claude-3-5-haiku-20241022", "Claude 3.5 Haiku", FALSE),
      Model("claude-3-opus-20240229", "Claude 3 Opus", TRUE),
      Model("claude-3-sonnet-20240229", "Claude 3 Sonnet", TRUE),
      Model("claude-3-haiku-20240307", "Claude 3 Haiku", TRUE)>>

\* gemini.ts 127-149: the catch block
fallbackModels(provider) ==
    CASE provider = "deepseek" ->
            <<Model("deepseek-chat", "DeepSeek V3 (Chat)", FALSE),
              Model("deepseek-reasoner", "DeepSeek R1 (Reasoner)", FALSE)>>
      [] provider = "groq" ->
            <<FreeModel("llama-3.3-70b-versatile", "Llama 3.3 70B", FALSE),
              FreeModel("llama-3.2-11b-vision-preview", "Llama 3.2 11B (Vision)", TRUE),
              FreeModel("mixtral-8x7b-32768", "Mixtral 8x7B", FALSE)>>
      [] provider = "openai" ->
            <<Model("gpt-4o", "GPT-4o", TRUE),
              Model("gpt-4o-mini", "GPT-4o Mini", TRUE),
              Model("o1-preview", "o1 Preview", FALSE)>>
      [] OTHER -> <<>>

\* baseUrl.replace(/\/$/, ''): the URLs that end with a slash and what is left
\* of them
WithoutSlash == ("https://proxy.example/v1/" :> "https://proxy.example/v1")
withoutTrailingSlash(baseUrl) ==
    IF baseUrl \in DOMAIN WithoutSlash THEN WithoutSlash[baseUrl] ELSE baseUrl

\* gemini.ts 79-96: the request of the listing, or none when fetchUrl is empty;
\* apiKey is the bearer token of its headers, none for openrouter
listingRequest(provider, apiKey, baseUrl) ==
    LET to(base, path, key) ==
            Some([base |-> base, path |-> path, apiKey |-> key, model |-> ""])
    IN  CASE provider = "openai" -> to("https://api.openai.com/v1", "/models", apiKey)
          [] provider = "deepseek" -> to("https://api.deepseek.com", "/models", apiKey)
          [] provider = "groq" -> to("https://api.groq.com/openai/v1", "/models", apiKey)
          [] provider = "openrouter" -> to("https://openrouter.ai/api/v1", "/models", "")
          [] provider = "custom" /\ Truthy(baseUrl) ->
                to(withoutTrailingSlash(baseUrl), "/models", apiKey)
          [] OTHER -> None

\* String.prototype.includes on strings of symbols
includes(s, sub) == \E i \in 1..(Len(s) - Len(sub) + 1) : SubSeq(s, i, i + Len(sub) - 1) = sub

\* String.prototype.toLowerCase, symbol by symbol
LowerCase == ("LLaVA" :> "llava") @@ ("Vision" :> "vision")
toLowerCase(s) == [i \in 1..Len(s) |-> IF s[i] \in DOMAIN LowerCase THEN LowerCase[s[i]] ELSE s[i]]

\* The order of the symbols of the model ids, for localeCompare.
Alphabet == <<"-", ":free", "11b", "3.2", "4o", "gpt", "llama", "LLaVA", "mistral", "Vision">>
rank(c) == IF \E i \in 1..Len(Alphabet) : Alphabet[i] = c
           THEN CHOOSE i \in 1..Len(Alphabet) : Alphabet[i] = c
           ELSE 0

\* a.localeCompare(b) < 0
RECURSIVE comesBefore(_, _)
comesBefore(a, b) ==
    IF b = <<>> THEN FALSE
    ELSE IF a = <<>> THEN TRUE
    ELSE IF rank(Head(a)) # rank(Head(b)) THEN rank(Head(a)) < rank(Head(b))
    ELSE comesBefore(Tail(a), Tail(b))

\* gemini.ts 121-125: the comparator is negative
modelBefore(a, b) ==
    IF a.isFree /\ ~b.isFree THEN TRUE
    ELSE IF ~a.isFree /\ b.isFree THEN FALSE
    ELSE comesBefore(a.id, b.id)

\* Array.prototype.sort with that comparator: stable
RECURSIVE sortModels(_)
sortModels(l) ==
    IF Len(l) <= 1 THEN l
    ELSE LET first == CHOOSE i \in 1..Len(l) :
                        /\ \A k \in 1..Len(l) : ~modelBefore(l[k], l[i])
                        /\ \A k \in 1..(i - 1) : modelBefore(l[i], l[k])
             rest == [k \in 1..(Len(l) - 1) |-> IF k < first THEN l[k] ELSE l[k + 1]]
         IN  <<l[first]>> \o sortModels(rest)

\* gemini.ts 108-120: the ModelInfo of an entry m whose id is a string
modelInfo(provider, m) ==
    LET id == Member(m, <<"id">>).v
        lower == toLowerCase(id)
        window == Member(m, <<"context_window">>)
        price == Member(Member(m, <<"pricing">>), <<"prompt">>)
    IN  [id |-> id, name |-> id,
         supportsVision |->
            \/ includes(lower, <<"vision">>) \/ includes(lower, <<"gpt", "-", "4o">>)
            \/ includes(lower, <<"claude", "-", "3">>) \/ includes(lower, <<"llava">>)
            \/ /\ provider = "groq"
               /\ includes(id, <<"llama", "-", "3.2">>) /\ includes(id, <<"11b">>),
         contextLength |-> IF JsTruthy(window) THEN window
                           ELSE Member(m, <<"context_length">>),
         isFree |->
            \/ provider = "custom" \/ provider = "groq"
            \/ /\ provider = "openrouter"
               /\ \/ includes(id, <<":free">>)
                  \/ price.t = "str" /\ price.v = <<"0">>
                  \/ price.t = "num" /\ price.v = 0]

\* gemini.ts 100-126: the list made of the parsed body, or nothing when a
\* TypeError is thrown on the way: the body is null, the list is not an array,
\* or an entry has no id that is a string
listedModels(provider, data) ==
    LET field == IF JsTruthy(Member(data, <<"data">>)) THEN Member(data, <<"data">>)
                 ELSE IF JsTruthy(Member(data, <<"models">>)) THEN Member(data, <<"models">>)
                 ELSE JArr(<<>>)
        hasId(m) == m.t = "obj" /\ Member(m, <<"id">>).t = "str"
    IN  IF data.t = "null" \/ field.t # "arr" THEN None
        ELSE IF \E i \in 1..Len(field.v) : ~hasId(field.v[i]) THEN None
        ELSE LET models == IF provider = "openai"
                           THEN SelectSeq(field.v,
                                          LAMBDA m : includes(Member(m, <<"id">>).v, <<"gpt">>))
                           ELSE field.v
             IN  Some(sortModels([i \in 1..Len(models) |-> modelInfo(provider, models[i])]))

\* The catch block dropped: without a usable answer the list is empty.
listingSettledNoFallback(provider, answer) ==
    IF answer.kind # "text" \/ ~JSONparse(answer.text).ok THEN <<>>
    ELSE LET listed == listedModels(provider, JSONparse(answer.text).val)
         IN  IF listed = None THEN <<>> ELSE listed[1]

\* gemini.ts 97-149: the list fetchProviderModels resolves to once the request
\* of the listing has settled with answer
listingSettled(provider, answer) ==
    IF answer.kind # "text" \/ ~JSONparse(answer.text).ok THEN fallbackModels(provider)
    ELSE LET listed == listedModels(provider, JSONparse(answer.text).val)
         IN  IF listed = None THEN fallbackModels(provider) ELSE listed[1]

\* gemini.ts 53-96: the list fetchProviderModels resolves to without a request
\* (for custom without a base URL fetchUrl stays empty)
listingWithoutRequest(provider) ==
    CASE provider = "google" -> GoogleModels
      [] provider = "anthropic" -> AnthropicModels
      [] OTHER -> <<>>

\* Bodies of the answer to a listing.
ModelEntry(id) == <<"{">> \o Lit("id") \o <<":", Quote>> \o id \o <<Quote, "}">>
PricedEntry(id) ==
    <<"{">> \o Lit("id") \o <<":", Quote>> \o id \o <<Quote, ",">>
        \o Lit("pricing") \o <<":", "{">> \o Lit("prompt") \o <<":">> \o Lit("0") \o <<"}", ",">>
        \o Lit("context_length") \o <<":", "85", "}">>
ListBody(field, entries) == <<"{">> \o Lit(field) \o <<":", "[">> \o entries \o <<"]", "}">>

ListingBodies ==
    {ListBody("data", ModelEntry(<<"gpt", "-", "4o">>) \o <<",">>
                        \o ModelEntry(<<"llama", "-", "3.2", "-", "11b">>)),
     ListBody("models", PricedEntry(<<"mistral">>) \o <<",">> \o ModelEntry(<<"LLaVA">>)
                        \o <<",">> \o ModelEntry(<<"mistral", ":free">>)),
     ListBody("data", <<>>),
     ListBody("data", <<"{", "}">>),
     <<"{">> \o Lit("data") \o <<":">> \o Lit("gpt") \o <<"}">>,
     <<"{">> \o Lit("error") \o <<":">> \o Lit("invalid key") \o <<"}">>,
     <<"null">>,
     Prose,
     <<>>}

ListingAnswers == {Failure, NotOk} \cup {TextOf(body) : body \in ListingBodies}

ListingBaseUrls == {Undefined, "", "https://proxy.example/v1", "https://proxy.example/v1/"}

\* gemini.ts 53-98: the call: it resolves at once or sends the request
fetchProviderModels ==
    \E provider \in LLMProvider, apiKey \in ApiKeys, baseUrl \in ListingBaseUrls :
        /\ op.pc = "idle"
        /\ LET call == [NoOp EXCEPT !.name = "fetchProviderModels",
                                    !.listing = [provider |-> provider, apiKey |-> apiKey,
                                                 baseUrl |-> baseUrl]]
               request == listingRequest(provider, apiKey, baseUrl)
           IN  IF request = None
               THEN Finish(call, Return(listingWithoutRequest(provider))) /\ UNCHANGED net
               ELSE Send(call, request[1])
        /\ UNCHANGED notCalls

\* gemini.ts 98-149: the request settles
listingAnswered ==
    \E answer \in ListingAnswers :
        /\ op.name = "fetchProviderModels" /\ op.pc = "awaiting"
        /\ Finish([op EXCEPT !.response = answer],
                  Return(listingSettled(op.listing.provider, answer)))
        /\ UNCHANGED net
        /\ UNCHANGED notCalls

-----------------------------------------------------------------------------
(* JSON.stringify, and JSON.parse(cleanJson(text)) applied to a provider's text *)

\* The numeral JSON.stringify writes for a number of the texts.
numeral(n) == CHOOSE s \in DOMAIN NumberValue : NumberValue[s] = n

\* JSON.stringify of a value without undefined members, whose strings hold no
\* quote, backslash or line break (nothing to escape). The members are written
\* in some fixed order of the keys; JSON.parse does not depend on it.
RECURSIVE JSONstringify(_), stringifyMembers(_), stringifyElements(_)
JSONstringify(x) ==
    CASE x.t = "null" -> <<"null">>
      [] x.t = "bool" -> IF x.v THEN <<"true">> ELSE <<"false">>
      [] x.t = "num" -> <<numeral(x.v)>>
      [] x.t = "str" -> <<Quote>> \o x.v \o <<Quote>>
      [] x.t = "arr" -> <<"[">> \o stringifyElements(x.v) \o <<"]">>
      [] x.t = "obj" -> <<"{">> \o stringifyMembers(x.v) \o <<"}">>

stringifyMembers(o) ==
    IF DOMAIN o = {} THEN <<>>
    ELSE LET k == CHOOSE key \in DOMAIN o : TRUE
             rest == [key \in DOMAIN o \ {k} |-> o[key]]
         IN  <<Quote>> \o k \o <<Quote, ":">> \o JSONstringify(o[k])
                \o (IF DOMAIN rest = {} THEN <<>> ELSE <<",">> \o stringifyMembers(rest))

stringifyElements(a) ==
    IF a = <<>> THEN <<>>
    ELSE JSONstringify(Head(a))
            \o (IF Tail(a) = <<>> THEN <<>> ELSE <<",">> \o stringifyElements(Tail(a)))

\* A text after a ```json fence, with the closing fence and without it.
FencedOpen(text) == <<Backtick, Backtick, Backtick, "json", "\n">> \o text

\* The strings of the values: up to MaxChars symbols, words and backticks.
MaxChars == 3
StringChars == {"code", Backtick}
Strings == UNION {[1..n -> StringChars] : n \in 0..MaxChars}

\* The objects a provider is asked for, reduced to two string fields, and one
\* with a value of each other kind.
JsonObjects ==
    {JObj(Obj([title |-> JStr(t), summary |-> JStr(s)])) : t \in Strings, s \in Strings}
        \cup {JObj(Obj([score |-> JNum(85), tags |-> JArr(<<JStr(s), JNull>>),
                        remote |-> JBool(TRUE), nested |-> JObj(Obj([note |-> JStr(s)]))])) :
                s \in Strings}

\* gemini.ts 370, 497, 643: a provider's text is a serialized object in a fence
fencedAnswer ==
    \E o \in JsonObjects, closed \in BOOLEAN :
        /\ op.pc = "idle"
        /\ op' = [NoOp EXCEPT !.name = "cleanJson", !.pc = "awaiting",
                              !.response = TextOf(IF closed THEN Fenced(JSONstringify(o))
                                                  ELSE FencedOpen(JSONstringify(o)))]
        /\ UNCHANGED <<net, outcome, safeOutcome>>
        /\ UNCHANGED notCalls

\* gemini.ts 153-155, 370, 497, 643: JSON.parse(cleanJson(text))
parseCleaned ==
    /\ op.name = "cleanJson" /\ op.pc = "awaiting"
    /\ op' = [op EXCEPT !.pc = "done"]
    /\ outcome' = LET parsed == JSONparse(cleanJson(op.response.text))
                  IN  IF parsed.ok THEN Return(parsed.val) ELSE Throw(SyntaxError)
    /\ UNCHANGED <<net, safeOutcome>>
    /\ UNCHANGED notCalls

-----------------------------------------------------------------------------
(* getLLMSettings and getTaskSettings over any content of the settings key *)

\* localStorage.getItem(SETTINGS_KEY) when the key holds a text that
\* saveLLMSettings did not write.
TextItem(text) == [kind |-> "text", val |-> text]

\* The empty string, a text that is not JSON, and JSON that is not an object.
TextItems == {TextItem(text) : text \in {<<>>, Prose, <<"{">>, <<"null">>, <<"0">>, <<"true">>}}

\* gemini.ts 19-27: the settlement of getLLMSettings() when the key holds item.
\* JSON.parse is not guarded, nor is the read of parsed.overrides.
getLLMSettingsOf(item) ==
    IF item.kind = "absent" THEN Return(DEFAULT_SETTINGS)
    ELSE IF item.kind = "json"
         THEN Return(Spread(Spread(DEFAULT_SETTINGS, item.val),
                            [overrides |-> IF "overrides" \in DOMAIN item.val
                                           THEN item.val.overrides ELSE EmptyObject]))
    ELSE IF item.val = <<>> THEN Return(DEFAULT_SETTINGS)
    ELSE LET parsed == JSONparse(item.val)
         IN  IF ~parsed.ok THEN Throw(SyntaxError)
             ELSE IF parsed.val.t = "null" THEN Throw(TypeErrorMessage)
             ELSE Return(Spread(Spread(DEFAULT_SETTINGS, ownProperties(parsed.val)),
                                [overrides |-> EmptyObject]))

\* gemini.ts 31-37: the settlement of getTaskSettings(task)
getTaskSettingsOf(item, task) ==
    LET read == getLLMSettingsOf(item)
    IN  IF read.kind = "throw" THEN read
        ELSE IF task # NoTask /\ task \in DOMAIN read.val.overrides
             THEN Return(read.val.overrides[task])
        ELSE read

\* gemini.ts 19-27: a call of getLLMSettings()
getLLMSettingsCall ==
    /\ op.pc = "idle"
    /\ op' = [NoOp EXCEPT !.name = "getLLMSettings", !.pc = "done"]
    /\ outcome' = getLLMSettingsOf(stored)
    /\ UNCHANGED <<net, safeOutcome>>
    /\ UNCHANGED notCalls

\* gemini.ts 31-37: a call of getTaskSettings(task)
getTaskSettingsCall ==
    \E task \in TaskType \cup {NoTask} :
        /\ op.pc = "idle"
        /\ op' = [NoOp EXCEPT !.name = "getTaskSettings", !.pc = "done"]
        /\ outcome' = getTaskSettingsOf(stored, task)
        /\ UNCHANGED <<net, safeOutcome>>
        /\ UNCHANGED notCalls

-----------------------------------------------------------------------------
(* The model list of the settings modal *)

\* Bound on the fetchProviderModels calls of the modal in flight at once.
MaxListings == 2

\* The answers to the listings of the modal.
ModalAnswers ==
    {Failure,
     TextOf(ListBody("data", ModelEntry(<<"gpt", "-", "4o">>) \o <<",">>
                               \o ModelEntry(<<"llama", "-", "3.2", "-", "11b">>)))}

\* SettingsModal.tsx 52-70: the timer fires and loadModels calls
\* fetchProviderModels with the config of the render that set the timer. The
\* calls count as steps of the bounded behaviour.
loadModels ==
    /\ Cardinality({l \in listings : l.started}) < MaxListings
    /\ edits < MaxEdits
    /\ \E l \in listings :
        /\ ~l.started
        /\ listings' = (listings \ {l}) \cup {[l EXCEPT !.started = TRUE]}
    /\ edits' = edits + 1
    /\ UNCHANGED <<stored, settings, isOpen, activeTab, pendingClose, ovTouched, availableModels>>
    /\ UNCHANGED notSettings

\* gemini.ts 53-149 for the modal: the list a call resolves to
fetchedModels(l, answer) ==
    IF listingRequest(l.provider, l.apiKey, l.baseUrl) = None
    THEN listingWithoutRequest(l.provider)
    ELSE listingSettled(l.provider, answer)

\* SettingsModal.tsx 56-57: a call of fetchProviderModels resolves and its list
\* is shown
modelsLoaded ==
    \E l \in listings, answer \in ModalAnswers :
        /\ l.started
        /\ availableModels' = fetchedModels(l, answer)
        /\ listings' = listings \ {l}
        /\ UNCHANGED <<stored, settings, isOpen, activeTab, pendingClose, edits, ovTouched>>
        /\ UNCHANGED notSettings

\* The string of a model id written as several symbols.
IdStrings ==
    (<<"gpt", "-", "4o">> :> "gpt-4o") @@ (<<"llama", "-", "3.2", "-", "11b">> :> "llama-3.2-11b")
idString(id) == IF id \in DOMAIN IdStrings THEN IdStrings[id] ELSE id[1]

\* SettingsModal.tsx 119-125, 320-330: a model of the list is selected
handleModelSelect ==
    \E i \in 1..Len(availableModels) :
        Edit([modelName |-> idString(availableModels[i].id),
              supportsVision |-> availableModels[i].supportsVision])

-----------------------------------------------------------------------------
(* generateContent called by itself *)

\* The texts of the answers.
GeneratedTexts == {<<>>, Prose, DetailsJson}

\* gemini.ts 211, 259: the messages of the errors for a status that is not OK and
\* a body without error.message; the status text stands for any.
AnthropicHint == "Anthropic Request Failed. (Check CORS/Key)"
RequestFailed == "Request Failed: Bad Request"

\* The string of a text of one word: the inverse of Text.
Word(text) == IF text = <<>> THEN "" ELSE text[1]

\* gemini.ts 211, 259: new Error(err.error?.message || hint); err.error throws
\* a TypeError when err is null
errorOfBody(err, hint) ==
    LET error == Member(err, <<"error">>)
        message == IF error.t \in {"undefined", "null"} THEN JUndefined
                   ELSE Member(error, <<"message">>)
    IN  IF err.t = "null" THEN Throw(TypeErrorMessage)
        ELSE IF JsTruthy(message) THEN Throw(Word(message.v))
        ELSE Throw(hint)

\* gemini.ts 209-212 and 257-260: the error thrown for a status that is not OK.
\* The anthropic branch awaits res.json() as it is, which rejects with a
\* SyntaxError on a body that is not JSON; the OpenAI-compatible branch reads
\* such a body as {}.
notOkError(base, body) ==
    LET parsed == JSONparse(body)
    IN  IF base = "https://api.anthropic.com"
        THEN IF ~parsed.ok THEN Throw(SyntaxError) ELSE errorOfBody(parsed.val, AnthropicHint)
        ELSE errorOfBody(IF parsed.ok THEN parsed.val ELSE JObj(EmptyObject), RequestFailed)

\* gemini.ts 176-181, 207-218, 251-262: generateContent from the answer on
generateContentSettled(request, response) ==
    CASE response.kind = "failure" -> Throw(ProviderFailure)
      [] response.kind = "notok" -> notOkError(request.base, response.text)
      [] OTHER -> Return(JStr(response.text))

\* Bodies of answers whose status is not OK.
ErrorBody ==
    <<"{">> \o Lit("type") \o <<":">> \o Lit("error") \o <<",">> \o Lit("error") \o <<":", "{">>
        \o Lit("type") \o <<":">> \o Lit("authentication_error") \o <<",">>
        \o Lit("message") \o <<":">> \o Lit("invalid x-api-key") \o <<"}", "}">>
ErrorBodies == {ErrorBody, <<"{", "}">>, <<>>, <<"<html>Bad Gateway</html>">>, <<"null">>}

\* What a request of generateContent is answered: a failure, a text or, by an
\* HTTP endpoint, a status that is not OK with its body.
GenerateAnswers(request) ==
    {Failure} \cup {TextOf(t) : t \in GeneratedTexts}
        \cup (IF request.base = "google-sdk" THEN {}
              ELSE {[kind |-> "notok", text |-> body] : body \in ErrorBodies})

\* gemini.ts 158-263 with a failure answered by a second request.
generateContentAnsweredRetries ==
    /\ op.name = "generateContent" /\ op.pc = "awaiting"
    /\ \E response \in GenerateAnswers(net[1]) :
           IF response.kind = "failure" /\ Len(net) < 2
           THEN /\ op' = [op EXCEPT !.response = response]
                /\ net' = Append(net, net[1])
                /\ UNCHANGED <<outcome, safeOutcome>>
           ELSE /\ Finish([op EXCEPT !.response = response],
                          generateContentSettled(net[1], response))
                /\ UNCHANGED net
    /\ UNCHANGED notCalls

\* gemini.ts 158-263, up to the request: configOverride || getLLMSettings(),
\* the override being the config of a task
generateContentCall ==
    \E task \in TaskType \cup {NoTask} :
        /\ op.pc = "idle"
        /\ LET call == [NoOp EXCEPT !.name = "generateContent", !.task = task]
               start == generateContent(getTaskSettings(task))
           IN  IF start.kind = "throw"
               THEN Finish(call, start) /\ UNCHANGED net
               ELSE Send(call, start.val)
        /\ UNCHANGED notCalls

\* gemini.ts 176-181, 207-218, 251-262: the SDK call or the fetch settles: a
\* failure is thrown, as is the error of a status that is not OK; the text of
\* the answer (or "") is returned
generateContentAnswered ==
    /\ op.name = "generateContent" /\ op.pc = "awaiting"
    /\ \E response \in GenerateAnswers(net[1]) :
           Finish([op EXCEPT !.response = response], generateContentSettled(net[1], response))
    /\ UNCHANGED net
    /\ UNCHANGED notCalls

-----------------------------------------------------------------------------
(* parseAPIError (utils/errorHandler.ts) *)

\* errorHandler.ts 16-56: the substrings tested for each code. A message is a
\* sequence of pieces of text, each a marker or a stretch without any marker;
\* "Failed to fetch" is written in two pieces because it holds "fetch".
Markers ==
    [AUTH_ERROR |-> {<<"API_KEY">>, <<"api key">>, <<"401">>, <<"Unauthorized">>},
     CORS_ERROR |-> {<<"CORS">>, <<"cors">>},
     RATE_LIMIT |-> {<<"rate limit">>, <<"429">>, <<"quota">>},
     NETWORK_ERROR |-> {<<"network">>, <<"fetch">>, <<"Failed to ", "fetch">>, <<"NetworkError">>},
     TIMEOUT |-> {<<"timeout">>, <<"Timeout">>},
     VISION_ERROR |-> {<<"Vision">>, <<"vision">>, <<"image">>},
     GROUNDING_ERROR |-> {<<"Google Grounding">>, <<"grounding">>},
     PARSE_ERROR |-> {<<"JSON">>, <<"parse">>, <<"Unexpected token">>},
     SERVER_ERROR |-> {<<"500">>, <<"502">>, <<"503">>},
     MODEL_ERROR |-> {<<"model">>, <<"Model">>},
     CONTENT_BLOCKED |-> {<<"content">>, <<"safety">>, <<"blocked">>}]

\* error.message.includes(a) || error.message.includes(b) || ...
mentions(message, code) == \E marker \in Markers[code] : includes(message, marker)

\* errorHandler.ts 9-10: the title and the message of an error of no kind
DefaultTitle == "Something went wrong"
DefaultMessage == "An unexpected error occurred. Please try again."

\* errorHandler.ts 17-59: the title and the message set for each code
ErrorTitles ==
    [AUTH_ERROR |-> "Authentication Error", CORS_ERROR |-> "Connection Blocked",
     RATE_LIMIT |-> "Rate Limited", NETWORK_ERROR |-> "Network Error",
     TIMEOUT |-> "Request Timeout", VISION_ERROR |-> "Vision Not Supported",
     GROUNDING_ERROR |-> "Search Not Available", PARSE_ERROR |-> "Response Error",
     SERVER_ERROR |-> "Server Error", MODEL_ERROR |-> "Model Error",
     CONTENT_BLOCKED |-> "Content Blocked"]
ErrorTexts ==
    [AUTH_ERROR |-> "Invalid or missing API key. Please check your settings.",
     CORS_ERROR |-> "Request blocked by browser security. ...",
     RATE_LIMIT |-> "Too many requests. Please wait a moment before trying again.",
     NETWORK_ERROR |-> "Unable to connect. Check your internet connection and try again.",
     TIMEOUT |-> "The request took too long. Please try again.",
     VISION_ERROR |-> "This model does not support image/PDF analysis. ...",
     GROUNDING_ERROR |-> "Live job search requires Google Gemini with Grounding enabled. ...",
     PARSE_ERROR |-> "Failed to parse AI response. The model may have returned invalid data.",
     SERVER_ERROR |-> "The AI service is temporarily unavailable. Please try again later.",
     MODEL_ERROR |-> "The selected model is unavailable or invalid. Please check your settings.",
     CONTENT_BLOCKED |-> "The request was blocked by content safety filters. ..."]

\* A value thrown: an Error with its message, a string, or anything else.
ErrorOf(message) == [kind |-> "Error", text |-> message]
StringThrown(text) == [kind |-> "string", text |-> text]
OtherThrown == [kind |-> "other", text |-> <<>>]

\* The APIError with the title and message of a code.
classified(code) == [title |-> ErrorTitles[code], message |-> <<ErrorTexts[code]>>, code |-> code]

\* errorHandler.ts 65-67
withContext(context, result) ==
    IF context # "" THEN [result EXCEPT !.title = <<context, ": ", result.title>>]
    ELSE [result EXCEPT !.title = <<result.title>>]

\* A classifier that tests the network markers first.
parseAPIErrorNetworkFirst(error, context) ==
    LET m == error.text
        raw == [title |-> DefaultTitle, message |-> m, code |-> Undefined]
    IN  withContext(context,
            IF error.kind = "Error"
            THEN IF mentions(m, "NETWORK_ERROR") THEN classified("NETWORK_ERROR")
                 ELSE IF mentions(m, "AUTH_ERROR") THEN classified("AUTH_ERROR")
                 ELSE IF mentions(m, "CORS_ERROR") THEN classified("CORS_ERROR")
                 ELSE IF mentions(m, "RATE_LIMIT") THEN classified("RATE_LIMIT")
                 ELSE IF mentions(m, "TIMEOUT") THEN classified("TIMEOUT")
                 ELSE IF mentions(m, "VISION_ERROR") THEN classified("VISION_ERROR")
                 ELSE IF mentions(m, "GROUNDING_ERROR") THEN classified("GROUNDING_ERROR")
                 ELSE IF mentions(m, "PARSE_ERROR") THEN classified("PARSE_ERROR")
                 ELSE IF mentions(m, "SERVER_ERROR") THEN classified("SERVER_ERROR")
                 ELSE IF mentions(m, "MODEL_ERROR") THEN classified("MODEL_ERROR")
                 ELSE IF mentions(m, "CONTENT_BLOCKED") THEN classified("CONTENT_BLOCKED")
                 ELSE raw
            ELSE IF error.kind = "string" THEN raw
            ELSE [title |-> DefaultTitle, message |-> <<DefaultMessage>>, code |-> Undefined])

\* errorHandler.ts 8-70
parseAPIError(error, context) ==
    LET m == error.text
        raw == [title |-> DefaultTitle, message |-> m, code |-> Undefined]
    IN  withContext(context,
            IF error.kind = "Error"
            THEN IF mentions(m, "AUTH_ERROR") THEN classified("AUTH_ERROR")
                 ELSE IF mentions(m, "CORS_ERROR") THEN classified("CORS_ERROR")
                 ELSE IF mentions(m, "RATE_LIMIT") THEN classified("RATE_LIMIT")
                 ELSE IF mentions(m, "NETWORK_ERROR") THEN classified("NETWORK_ERROR")
                 ELSE IF mentions(m, "TIMEOUT") THEN classified("TIMEOUT")
                 ELSE IF mentions(m, "VISION_ERROR") THEN classified("VISION_ERROR")
                 ELSE IF mentions(m, "GROUNDING_ERROR") THEN classified("GROUNDING_ERROR")
                 ELSE IF mentions(m, "PARSE_ERROR") THEN classified("PARSE_ERROR")
                 ELSE IF mentions(m, "SERVER_ERROR") THEN classified("SERVER_ERROR")
                 ELSE IF mentions(m, "MODEL_ERROR") THEN classified("MODEL_ERROR")
                 ELSE IF mentions(m, "CONTENT_BLOCKED") THEN classified("CONTENT_BLOCKED")
                 ELSE raw
            ELSE IF error.kind = "string" THEN raw
            ELSE [title |-> DefaultTitle, message |-> <<DefaultMessage>>, code |-> Undefined])

\* The pieces of the messages: every marker's pieces and two stretches of text
\* without a marker; the messages have up to MaxPieces pieces.
MaxPieces == 2
Pieces ==
    UNION {{marker[i] : i \in 1..Len(marker)} : marker \in UNION {Markers[c] : c \in DOMAIN Markers}}
        \cup {"Request Failed: ", "Base URL is missing for this provider."}
ErrorMessages == UNION {[1..n -> Pieces] : n \in 0..MaxPieces}

\* gemini.ts 694: a context a wrapper passes, and none
Contexts == {"", "Job Search"}

\* errorHandler.ts 8-70: one call; the value thrown is kept in op.response
parseAPIErrorCall ==
    /\ op.pc = "idle"
    /\ \E context \in Contexts,
          error \in {ErrorOf(m) : m \in ErrorMessages} \cup {StringThrown(<<"401">>), OtherThrown} :
           /\ op' = [NoOp EXCEPT !.name = "parseAPIError", !.pc = "done", !.response = error]
           /\ outcome' = Return(parseAPIError(error, context))
    /\ UNCHANGED <<net, safeOutcome>>
    /\ UNCHANGED notCalls
-----------------------------------------------------------------------------
(* The query generators: getSearchQueryFromResume and generateDorkFromResume *)

\* gemini.ts 570: the fallback query
FallbackQuery == <<"Software Engineer">>

\* gemini.ts 570: txt.replace(/"/g, '').trim() || "Software Engineer"
searchQueryOf(txt) ==
    LET stripped == trim(removeAll(txt, <<Quote>>))
    IN  IF stripped = <<>> THEN FallbackQuery ELSE stripped

\* gemini.ts 417: query.replace(/`/g, '').trim()
dorkOf(query) == trim(removeAll(query, <<Backtick>>))

\* Answers to the prompts of the generators (gemini.ts 405-414, 561-567).
QueryTexts ==
    {<<"Senior Backend Engineer Go">>, <<Quote, "Senior Backend Engineer Go", Quote, "\n">>,
     <<Backtick, "site:lever.co Go", Backtick>>,
     <<>>, <<" ", "\n">>, <<Quote, Quote>>, <<Backtick, Backtick>>}

\* gemini.ts 558-569 and 402-416: a generator up to the request of generateContent
queryCall(name) ==
    /\ op.pc = "idle"
    /\ LET call == [NoOp EXCEPT !.name = name]
           start == generateContent(getTaskSettings("search"))
       IN  IF start.kind = "throw"
           THEN Finish(call, start) /\ UNCHANGED net
           ELSE Send(call, start.val)
    /\ UNCHANGED notCalls

getSearchQueryFromResume == queryCall("getSearchQueryFromResume")

generateDorkFromResume == queryCall("generateDorkFromResume")

\* gemini.ts 569-570: generateContent settles
searchQueryAnswered ==
    /\ op.name = "getSearchQueryFromResume" /\ op.pc = "awaiting"
    /\ \E response \in {Failure} \cup {TextOf(t) : t \in QueryTexts} :
           Finish([op EXCEPT !.response = response],
                  IF response.kind = "failure" THEN Throw(ProviderFailure)
                  ELSE Return(JStr(searchQueryOf(response.text))))
    /\ UNCHANGED net
    /\ UNCHANGED notCalls

\* gemini.ts 416-417: generateContent settles
dorkAnswered ==
    /\ op.name = "generateDorkFromResume" /\ op.pc = "awaiting"
    /\ \E response \in {Failure} \cup {TextOf(t) : t \in QueryTexts} :
           Finish([op EXCEPT !.response = response],
                  IF response.kind = "failure" THEN Throw(ProviderFailure)
                  ELSE Return(JStr(dorkOf(response.text))))
    /\ UNCHANGED net
    /\ UNCHANGED notCalls

-----------------------------------------------------------------------------
(* The API-key gate of the job-search handlers (JobSearchSection.tsx) *)

\* JobSearchSection.tsx 239-247: the value checkApiConfiguration returns; it
\* reads the global record
checkApiConfiguration ==
    LET s == getLLMSettings
    IN  ~(s.apiKey = "" /\ s.provider # "custom")

\* The task whose config the service behind each gated handler reads
\* (gemini.ts 514, 559, 403, 421, 605).
GatedTask ==
    [handleKeywordSearch |-> "search", handleResumeSearch |-> "search",
     handleGenerateDork |-> "search", handleExtractFromUrl |-> "search",
     handleAnalyzeAndListManualJob |-> "matching"]

\* JobSearchSection.tsx 250, 322, 396, 423, 463: a handler at its gate, with the
\* modal closed (it covers the page).  Blocked, it opens the settings modal
\* (243, SettingsModal.tsx 33-40) and returns; else it goes on to its call.
gated(handler) ==
    /\ op.pc = "idle" /\ ~isOpen
    /\ IF checkApiConfiguration
       THEN /\ op' = [NoOp EXCEPT !.name = handler, !.task = GatedTask[handler], !.pc = "calling"]
            /\ UNCHANGED settingsVars
       ELSE /\ op' = [NoOp EXCEPT !.name = handler, !.task = GatedTask[handler], !.pc = "blocked"]
            /\ isOpen' = TRUE
            /\ settings' = getLLMSettings
            /\ activeTab' = "global"
            /\ ovTouched' = {}
            /\ UNCHANGED <<stored, pendingClose, edits>>
            /\ loadModelsEffect
    /\ UNCHANGED <<net, outcome, safeOutcome>>
    /\ UNCHANGED <<trackVars, searchVars>>

handleKeywordSearch == gated("handleKeywordSearch")
handleResumeSearch == gated("handleResumeSearch")
handleGenerateDork == gated("handleGenerateDork")
handleExtractFromUrl == gated("handleExtractFromUrl")
handleAnalyzeAndListManualJob == gated("handleAnalyzeAndListManualJob")

\* The records a user saves: a provider and a key, or none, on the global tab
\* and, for one task or none, an override made from it whose key was typed or
\* left blank (SettingsModal.tsx 265-268, 281).
GateGlobals ==
    {handleUpdateConfig(DEFAULT_SETTINGS, "global", g) :
        g \in [provider : {"google", "openai", "custom"}, apiKey : ApiKeys]}
GateItems ==
    {saveLLMSettings(s) : s \in GateGlobals}
        \cup {saveLLMSettings(handleUpdateConfig(s, task, [apiKey |-> key])) :
                 s \in GateGlobals, task \in {"search", "matching"}, key \in {"", "k2"}}

-----------------------------------------------------------------------------
(* The specifications *)

\* Each part of the program at rest.
SettingsIdle ==
    /\ stored = NoItem
    /\ settings = DEFAULT_SETTINGS
    /\ isOpen = FALSE
    /\ activeTab = "global"
    /\ pendingClose = 0
    /\ edits = 0
    /\ ovTouched = {}
    /\ availableModels = <<>>
    /\ listings = {}

TrackIdle ==
    /\ trackedJobs = <<>>
    /\ now = 1
    /\ lastTrack = [id |-> "", status |-> "", calls |-> 0]

SearchIdle ==
    /\ jobs = <<>>
    /\ isSearching = FALSE
    /\ procs = [s \in 1..MaxSearches |-> IdleProc]
    /\ calls = {}

CallIdle ==
    /\ op = NoOp
    /\ net = <<>>
    /\ outcome = Pending
    /\ safeOutcome = Pending

\* The settings modal over the persisted record.
InitSettingsSpec == InitSettings /\ TrackIdle /\ SearchIdle /\ CallIdle

NextSettings ==
    \/ OpenSettings
    \/ onClose
    \/ setActiveTab
    \/ ProviderClick
    \/ ApiKeyInput
    \/ BaseUrlInput
    \/ ModelNameInput
    \/ VisionToggle
    \/ SearchToggle
    \/ handleCreateOverride
    \/ handleRemoveOverride
    \/ handleSave
    \/ CloseTimer

SpecSettings == InitSettingsSpec /\ [][NextSettings]_vars

\* The track handler under every call its type allows.
InitTrack == TrackIdle /\ SettingsIdle /\ SearchIdle /\ CallIdle

NextTrack ==
    \/ handleTrackJobCall
    \/ Tick

SpecTrack == InitTrack /\ [][NextTrack]_vars

\* The track handler under the calls the JobCard controls make.
NextTrackUI ==
    \/ handleApplyClick
    \/ handleStatusChange
    \/ handleStatusChangeFromSearch
    \/ Tick

SpecTrackUI == InitTrack /\ [][NextTrackUI]_vars

\* Searches and their analysis loops.
InitSearch == SearchIdle /\ SettingsIdle /\ TrackIdle /\ CallIdle

NextSearch ==
    \/ \E s \in 1..MaxSearches : performSearch(s)
    \/ \E s \in 1..MaxSearches : searchReturns(s)
    \/ \E s \in 1..MaxSearches, i \in 1..MaxJobs : analysisReturns([search |-> s, idx |-> i])
    \/ searchModeToggle

SpecSearch == InitSearch /\ [][NextSearch]_vars

\* The searches when every call awaited completes: searchJobsSafe and
\* analyzeJobMatchSafe catch every error and return (gemini.ts 684-729), so
\* while calls are awaited one of them returns.  A call stays awaited until
\* it returns, so this is implied by the completion of each call.  The
\* user's actions are under no obligation.
FairSearch ==
    /\ WF_vars(\E s \in 1..MaxSearches : searchReturns(s))
    /\ WF_vars(\E s \in 1..MaxSearches, i \in 1..MaxJobs :
                  analysisReturns([search |-> s, idx |-> i]))

SpecSearchLive == SpecSearch /\ FairSearch

\* One call of a service function under a saved configuration.
InitCalls ==
    /\ stored \in SavedItems
    /\ settings = getLLMSettings
    /\ isOpen = FALSE
    /\ activeTab = "global"
    /\ pendingClose = 0
    /\ edits = 0
    /\ ovTouched = {}
    /\ availableModels = <<>>
    /\ listings = {}
    /\ CallIdle /\ TrackIdle /\ SearchIdle

NextCalls ==
    \/ searchJobs
    \/ searchJobsAnswered
    \/ analyzeJobMatch
    \/ analyzeJobMatchAnswered
    \/ parseResumeFromFile
    \/ fileToBase64Settled
    \/ parseResumeAnswered
    \/ extractJobDetailsFromUrl
    \/ groundingAnswered
    \/ proxyAnswered
    \/ extractionAnswered
    \/ fetchProviderModels
    \/ listingAnswered
    \/ generateContentCall
    \/ generateContentAnswered
    \/ getSearchQueryFromResume
    \/ searchQueryAnswered
    \/ generateDorkFromResume
    \/ dorkAnswered

SpecCalls == InitCalls /\ [][NextCalls]_vars


\* The normalizer applied to one fenced text.
InitNormalizer == SettingsIdle /\ TrackIdle /\ SearchIdle /\ CallIdle

NextNormalizer ==
    \/ fencedAnswer
    \/ parseCleaned

SpecNormalizer == InitNormalizer /\ [][NextNormalizer]_vars

\* One read of the settings over any content of the key.
InitRead ==
    /\ stored \in SavedItems \cup TextItems
    /\ settings = DEFAULT_SETTINGS
    /\ isOpen = FALSE
    /\ activeTab = "global"
    /\ pendingClose = 0
    /\ edits = 0
    /\ ovTouched = {}
    /\ availableModels = <<>>
    /\ listings = {}
    /\ CallIdle /\ TrackIdle /\ SearchIdle

NextRead ==
    \/ getLLMSettingsCall
    \/ getTaskSettingsCall

SpecRead == InitRead /\ [][NextRead]_vars

\* The settings modal with the fetching of its model list.
NextModal ==
    \/ NextSettings
    \/ loadModels
    \/ modelsLoaded
    \/ handleModelSelect

SpecModal == InitSettingsSpec /\ [][NextModal]_vars

\* The classifier applied to one thrown value.
InitErrors == SettingsIdle /\ TrackIdle /\ SearchIdle /\ CallIdle

NextErrors == parseAPIErrorCall

SpecErrors == InitErrors /\ [][NextErrors]_vars

\* One gated handler of the job-search page under a saved record.
InitGate ==
    /\ stored \in GateItems
    /\ settings = getLLMSettings
    /\ isOpen = FALSE
    /\ activeTab = "global"
    /\ pendingClose = 0
    /\ edits = 0
    /\ ovTouched = {}
    /\ availableModels = <<>>
    /\ listings = {}
    /\ CallIdle /\ TrackIdle /\ SearchIdle

NextGate ==
    \/ handleKeywordSearch
    \/ handleResumeSearch
    \/ handleGenerateDork
    \/ handleExtractFromUrl
    \/ handleAnalyzeAndListManualJob

SpecGate == InitGate /\ [][NextGate]_vars
-----------------------------------------------------------------------------
(* Claims about the settings record, checked under SpecSettings *)

\* The override the persisted record holds for task t, if it holds one.
StoredHasOverride(t) ==
    /\ stored.kind = "json"
    /\ "overrides" \in DOMAIN stored.val
    /\ t \in DOMAIN stored.val.overrides

\* The keys of the global record: those of an LLMConfig.
ConfigKeys == {"provider", "apiKey", "modelName", "baseUrl", "supportsVision", "supportsSearch"}

\* The value the persisted record gives the global key k: its own, else the default's.
StoredGlobal(k) ==
    IF stored.kind = "json" /\ k \in DOMAIN stored.val THEN stored.val[k]
    ELSE DEFAULT_SETTINGS[k]

StoredGlobalKeys ==
    (DOMAIN DEFAULT_SETTINGS \cup (IF stored.kind = "json" THEN DOMAIN stored.val ELSE {}))
        \ {"overrides"}

\* C1: once the persisted record holds an override for a task, the config
\* resolved for that task stays the same through every step that does not
\* create, edit or remove that task's override in the draft: edits of the
\* global fields and the saves that follow them leave it as it was stored.
C1_OverrideSurvivesGlobalEdits ==
    [][\A t \in TaskType :
          (StoredHasOverride(t) /\ t \notin ovTouched')
              => getTaskSettings(t)' = getTaskSettings(t)]_vars

\* C1 witness: the record held an override for matching (OpenAI); the global
\* provider and key were then edited and saved without touching that override,
\* and the override is still what the resolver returns for matching.
C1_Witness ==
    /\ StoredHasOverride("matching")
    /\ "matching" \notin ovTouched
    /\ pendingClose > 0
    /\ stored.val.provider = "anthropic"
    /\ stored.val.apiKey = "k1"
    /\ getTaskSettings("matching") = OverrideRecord.overrides["matching"]

\* C2: with the task omitted the resolver returns the global settings (the
\* persisted record's fields over the defaults); with a task the persisted
\* record holds an override for, exactly that override; with a task it holds
\* none for, the global settings.
C2_Resolution ==
    /\ DOMAIN getTaskSettings(NoTask) = StoredGlobalKeys \cup {"overrides"}
    /\ \A k \in StoredGlobalKeys : getTaskSettings(NoTask)[k] = StoredGlobal(k)
    /\ \A t \in TaskType :
          IF StoredHasOverride(t)
          THEN getTaskSettings(t) = stored.val.overrides[t]
          ELSE getTaskSettings(t) = getTaskSettings(NoTask)

\* C2 witness: a save has persisted an override for search that differs from
\* the global fields, the record holds none for matching, and the resolver
\* returns the override for search and the global settings for matching.
C2_Witness ==
    /\ StoredHasOverride("search")
    /\ ~StoredHasOverride("matching")
    /\ stored.val.overrides["search"].provider # stored.val.provider
    /\ getTaskSettings("search").provider = stored.val.overrides["search"].provider
    /\ getTaskSettings("matching").provider = stored.val.provider

-----------------------------------------------------------------------------
(* Claims about the tracked jobs *)

\* The tracked entry of job id in list l, if any.
Entry(l, id) == IF findIndex(l, id) > 0 THEN Some(l[findIndex(l, id)]) ELSE None

\* appliedDate of job id in list l; NoDate (undefined) when the job is not tracked.
AppliedDateOf(l, id) == IF findIndex(l, id) > 0 THEN l[findIndex(l, id)].appliedDate ELSE NoDate

\* C5: appliedDate is written only by a track call whose status is 'applied',
\* and every such call stamps the current time; a call with another status
\* leaves an existing appliedDate as it was and a new entry's undefined.
C5_AppliedDateOnlyOnApplied ==
    [][/\ \A id \in JobIds :
            AppliedDateOf(trackedJobs', id) # AppliedDateOf(trackedJobs, id)
                => /\ lastTrack'.calls = lastTrack.calls + 1
                   /\ lastTrack'.id = id
                   /\ lastTrack'.status = "applied"
       /\ (lastTrack'.calls = lastTrack.calls + 1 /\ lastTrack'.status = "applied")
            => AppliedDateOf(trackedJobs', lastTrack'.id) = now
       /\ (lastTrack'.calls = lastTrack.calls + 1 /\ lastTrack'.status # "applied")
            => /\ findIndex(trackedJobs', lastTrack'.id) > 0
               /\ trackedJobs'[findIndex(trackedJobs', lastTrack'.id)].status = lastTrack'.status
               /\ AppliedDateOf(trackedJobs', lastTrack'.id)
                     = AppliedDateOf(trackedJobs, lastTrack'.id)]_vars

\* C5 witness: job 1 was stamped at an earlier time and then moved to another
\* status, keeping its stamp, while job 2 was first tracked with a status other
\* than 'applied' and has no stamp.
C5_Witness ==
    /\ Len(trackedJobs) = 2
    /\ findIndex(trackedJobs, "1") > 0 /\ findIndex(trackedJobs, "2") > 0
    /\ trackedJobs[findIndex(trackedJobs, "1")].status = "offer"
    /\ AppliedDateOf(trackedJobs, "1") # NoDate
    /\ AppliedDateOf(trackedJobs, "1") < now
    /\ trackedJobs[findIndex(trackedJobs, "2")].status = "interviewing"
    /\ AppliedDateOf(trackedJobs, "2") = NoDate

\* C6 (as claimed): the status picker of a tracked job offers every status of
\* ApplicationStatus, 'saved' included, so every status is reachable from every
\* other by a user action.
C6_PickerOffersEveryStatus ==
    \A i \in 1..Len(trackedJobs) : \A s \in ApplicationStatus : s \in PickerStatuses

\* What the controls do allow: no user action ever gives a job the status 'saved'.
C6_SavedNeverReached ==
    \A i \in 1..Len(trackedJobs) : trackedJobs[i].status # "saved"

-----------------------------------------------------------------------------
(* Claims about the job search, checked under SpecSearch *)

\* C3 (as claimed): every analysis attached to a job of the displayed list was
\* computed by the analyzeJobMatch call made for that very job, and its jobId
\* is that job's id.
C3_AnalysisBelongsToJob ==
    \A i \in 1..Len(jobs) :
        jobs[i].analysis # None
            => /\ jobs[i].analysis[1].jobId = jobs[i].id
               /\ jobs[i].analysis[1].basis = jobs[i].title

\* What does hold of C3: the jobId of an attached analysis is the job's id.
C3_JobIdMatches ==
    \A i \in 1..Len(jobs) :
        jobs[i].analysis # None => jobs[i].analysis[1].jobId = jobs[i].id

\* C4: the analyses of one search run one at a time in array order: at most one
\* call of a search is in flight, it is the call for the job at the loop's
\* index, and the loop is at that index only after the calls for all earlier
\* jobs have returned (their jobs are no longer awaited by that search).
C4_OneAnalysisAtATime ==
    \A s \in 1..MaxSearches :
        LET mine == {c \in calls : c.search = s}
        IN  /\ Cardinality(mine) <= 1
            /\ \A c \in mine : procs[s].pc = "analyzing" /\ c.idx = procs[s].idx
            /\ procs[s].pc = "analyzing" => mine = {[search |-> s, idx |-> procs[s].idx]}
            /\ procs[s].pc \in {"idle", "searching", "done"} => mine = {}

\* C4 witness: a search of two jobs has had its first analysis returned and now
\* awaits the second.
C4_Witness ==
    \E s \in 1..MaxSearches :
        /\ procs[s].pc = "analyzing"
        /\ Len(procs[s].found) = 2
        /\ procs[s].idx = 2
        /\ [search |-> s, idx |-> 2] \in calls

-----------------------------------------------------------------------------
(* Claims about the service calls, checked under SpecCalls *)

\* Two values of JavaScript are the same primitive.
Same(a, b) == a.t = b.t /\ a.v = b.v

IsEmptyArray(a) == a.t = "arr" /\ Len(a.v) = 0

\* The analysis the claims call degraded: score 0, the first resume's id (the
\* empty string without resumes), no missing keywords, the job's id.
IsDegradedAnalysis(a, job, resumes) ==
    /\ a.t = "obj"
    /\ Same(Member(a, <<"matchScore">>), JNum(0))
    /\ Same(Member(a, <<"bestResumeId">>),
            JStr(IF resumes = <<>> THEN <<>> ELSE Text(resumes[1].id)))
    /\ IsEmptyArray(Member(a, <<"missingKeywords">>))
    /\ Same(Member(a, <<"jobId">>), JStr(Text(job.id)))

\* C7: when the config of the search task has a provider other than google or
\* has supportsSearch false, searchJobs ends at once with the capability error
\* and no request is ever sent, neither before the error nor after it.
C7_SearchGateBeforeNetwork ==
    LET config == getTaskSettings("search")
    IN  (op.name = "searchJobs" /\ (config.provider # "google" \/ ~config.supportsSearch))
            => /\ op.pc = "done"
               /\ net = <<>>
               /\ outcome.kind = "throw"
               /\ outcome.error = SearchCapabilityError

\* C7 witness: searchJobs was called under a google config whose search box is
\* not ticked, and has thrown without a request.
C7_Witness ==
    /\ op.name = "searchJobs" /\ op.pc = "done"
    /\ getTaskSettings("search").provider = "google"
    /\ ~getTaskSettings("search").supportsSearch
    /\ outcome.kind = "throw"
    /\ net = <<>>

\* C8 (as claimed): parseResumeFromFile of a PDF whose content was read, under
\* a parsing config that is not google, fails with the PDF error before any
\* request, whatever supportsVision is.
C8_PdfErrorForEveryVision ==
    LET config == getTaskSettings("parsing")
    IN  (/\ op.name = "parseResumeFromFile" /\ op.mime = "application/pdf"
         /\ config.provider # "google" /\ op.read)
            => /\ op.pc = "done"
               /\ net = <<>>
               /\ outcome.kind = "throw"
               /\ outcome.error = PdfError

\* C8 (amended): such a call fails before any request for every value of
\* supportsVision; once the file is read the error is the PDF error when
\* supportsVision is true and the vision error when it is false; when the file
\* cannot be read it is the reader's error.
C8_PdfRejectedBeforeNetwork ==
    LET config == getTaskSettings("parsing")
    IN  (/\ op.name = "parseResumeFromFile" /\ op.mime = "application/pdf"
         /\ config.provider # "google")
            => /\ net = <<>>
               /\ op.pc \in {"reading", "done"}
               /\ op.pc = "done"
                    => /\ outcome.kind = "throw"
                       /\ outcome.error =
                            IF ~op.read THEN FileReadError
                            ELSE IF config.supportsVision THEN PdfError
                            ELSE VisionError

\* C8 witness: a PDF was read under an openai parsing config without vision and
\* the call has thrown the vision error without a request.
C8_Witness ==
    /\ op.name = "parseResumeFromFile" /\ op.mime = "application/pdf"
    /\ op.pc = "done" /\ op.read
    /\ getTaskSettings("parsing").provider = "openai"
    /\ ~getTaskSettings("parsing").supportsVision
    /\ outcome.kind = "throw" /\ outcome.error = VisionError
    /\ net = <<>>

\* C9 (as claimed): when the answer's text is not valid JSON, analyzeJobMatch
\* returns the degraded analysis.
C9_DegradedWhenTextNotJson ==
    (/\ op.name = "analyzeJobMatch" /\ op.pc = "done"
     /\ op.response.kind = "text" /\ ~JSONparse(op.response.text).ok)
        => /\ outcome.kind = "return"
           /\ IsDegradedAnalysis(outcome.val, op.job, op.resumes)

\* C9 (amended): when the answer's text, after cleanJson has removed the fence
\* markers and trimmed it, is not valid JSON, analyzeJobMatch does not throw and
\* returns the degraded analysis.
C9_DegradedWhenCleanedTextNotJson ==
    (/\ op.name = "analyzeJobMatch" /\ op.pc = "done"
     /\ op.response.kind = "text" /\ ~JSONparse(cleanJson(op.response.text)).ok)
        => /\ outcome.kind = "return"
           /\ IsDegradedAnalysis(outcome.val, op.job, op.resumes)

\* C9 witness: the answer was prose, two resumes were supplied, and the call
\* returned the degraded analysis naming the first.
C9_Witness ==
    /\ op.name = "analyzeJobMatch" /\ op.pc = "done"
    /\ op.response = TextOf(Prose)
    /\ Len(op.resumes) = 2
    /\ outcome.kind = "return"
    /\ Same(Member(outcome.val, <<"bestResumeId">>), JStr(<<"r1">>))
    /\ Same(Member(outcome.val, <<"matchScore">>), JNum(0))

\* C10 (as claimed): a failure of the provider call of searchJobs or of
\* analyzeJobMatch is absorbed: the function returns the empty list, or the
\* degraded analysis, instead of throwing.
C10_ProviderFailureAbsorbed ==
    (/\ op.name \in {"searchJobs", "analyzeJobMatch"} /\ op.pc = "done"
     /\ op.response.kind = "failure")
        => /\ outcome.kind = "return"
           /\ IF op.name = "searchJobs" THEN IsEmptyArray(outcome.val)
              ELSE IsDegradedAnalysis(outcome.val, op.job, op.resumes)

\* C10 (amended): a failure of the provider call propagates out of searchJobs
\* and of analyzeJobMatch as an error; it is the Safe wrapper that absorbs it,
\* searchJobsSafe into the empty list and analyzeJobMatchSafe into null.
C10_ProviderFailurePropagates ==
    (/\ op.name \in {"searchJobs", "analyzeJobMatch"} /\ op.pc = "done"
     /\ op.response.kind = "failure")
        => /\ outcome.kind = "throw"
           /\ outcome.error = ProviderFailure
           /\ op.safe
                => /\ safeOutcome.kind = "return"
                   /\ IF op.name = "searchJobs" THEN IsEmptyArray(safeOutcome.val)
                      ELSE safeOutcome.val.t = "null"

\* C10 witness: the provider call of an analyzeJobMatch made through its wrapper
\* failed; the function threw and the wrapper returned null.
C10_Witness ==
    /\ op.name = "analyzeJobMatch" /\ op.pc = "done" /\ op.safe
    /\ op.response.kind = "failure"
    /\ outcome.kind = "throw"
    /\ safeOutcome.kind = "return" /\ safeOutcome.val.t = "null"

-----------------------------------------------------------------------------
(* Claims about extractJobDetailsFromUrl, checked under SpecCalls *)

Extracting == op.name = "extractJobDetailsFromUrl"

\* The strategies the call has attempted so far, read from its requests:
\* Strategy 1 starts with the grounded SDK call, Strategy 2 with the proxy.
GroundingAttempted == Extracting /\ net # <<>> /\ net[1] # proxyRequest
ScrapeAttempted == Extracting /\ \E i \in 1..Len(net) : net[i] = proxyRequest

\* The step in which the grounded call of Strategy 1 settles.
GroundingSettles == Extracting /\ op.pc = "grounding" /\ op'.pc # "grounding"

\* C11 (as claimed): whenever the grounded call settles without a result, for
\* any kind of failure, the proxy of Strategy 2 is asked next.
C11_FallbackOnAnyFailure ==
    [][GroundingSettles
        => \/ op'.pc = "done" /\ outcome'.kind = "return"
           \/ op'.pc = "scraping" /\ net' = Append(net, proxyRequest)]_vars

\* C11 (amended): Strategy 1 is attempted exactly when the config of the search
\* task is google with supportsSearch; when its answer arrives and yields no
\* details (JSON.parse or the read of the fields throws) the proxy of Strategy
\* 2 is asked next; when the grounded call itself fails the function ends at
\* once with the provider's error, and Strategy 2 is not attempted.
C11_FallbackOnParseFailure ==
    [][/\ (Extracting' /\ op'.pc # "idle")
            => (GroundingAttempted' <=> groundingInUse(getTaskSettings("search")))
       /\ GroundingSettles
            => IF op'.response.kind = "failure"
               THEN /\ op'.pc = "done" /\ net' = net
                    /\ outcome' = Throw(ProviderFailure)
               ELSE \/ op'.pc = "done" /\ outcome'.kind = "return" /\ net' = net
                    \/ /\ groundingParse(op'.response.text) = None
                       /\ op'.pc = "scraping" /\ net' = Append(net, proxyRequest)]_vars

\* C11 witness: the grounded call answered with a text that is not JSON, and
\* the proxy has been asked.
C11_Witness ==
    /\ Extracting /\ op.pc = "scraping"
    /\ Len(net) = 2 /\ net[1].base = "google-sdk" /\ net[2] = proxyRequest
    /\ op.response = TextOf(Prose)

\* C12 (as claimed): a call that ends with an error ends with the grounding
\* error when grounding is in use and with the scrape error otherwise.
C12_AlwaysStrategyError ==
    (Extracting /\ op.pc = "done" /\ outcome.kind = "throw")
        => IF groundingInUse(getTaskSettings("search"))
           THEN outcome = Throw(GroundingFailed)
           ELSE outcome.error = ScrapeFailed

\* C12 (amended): a call in which Strategy 2 has failed ends with the grounding
\* error when grounding is in use and otherwise with the scrape error carrying
\* the message of the failure ("Unknown" for none), never with a result; a call
\* whose grounded SDK call failed ends with the provider's own error.
C12_StrategyErrorAfterScrape ==
    (Extracting /\ op.pc = "done")
        => LET config == getTaskSettings("search")
               failed == \/ op.response.kind = "failure"
                         \/ /\ ScrapeAttempted
                            /\ \/ ~JSONparse(cleanJson(op.response.text)).ok
                               \/ JSONparse(cleanJson(op.response.text)).val.t = "null"
           IN  /\ failed <=> outcome.kind = "throw"
               /\ outcome.kind = "throw"
                    => IF ~ScrapeAttempted THEN outcome = Throw(ProviderFailure)
                       ELSE IF groundingInUse(config) THEN outcome = Throw(GroundingFailed)
                       ELSE /\ outcome.error = ScrapeFailed
                            /\ outcome.cause \in
                                 (ProxyFailures \ {""})
                                    \cup {"Unknown", ProviderFailure, SyntaxError, TypeErrorMessage}
                            /\ (Len(net) = 2 /\ op.response.kind = "failure")
                                    => outcome.cause = ProviderFailure

\* C12 witness: without grounding, the proxy answered and the provider's
\* request failed; the call has ended with the scrape error carrying the
\* provider's message.
C12_Witness ==
    /\ Extracting /\ op.pc = "done"
    /\ ~groundingInUse(getTaskSettings("search"))
    /\ Len(net) = 2 /\ op.response.kind = "failure"
    /\ outcome = ThrowCarrying(ScrapeFailed, ProviderFailure)

\* C12: the grounded SDK call failed and the call ended with the provider's
\* error, neither of the two strategy errors.
C12_GroundedCallFailed ==
    /\ Extracting /\ op.pc = "done" /\ GroundingAttempted /\ ~ScrapeAttempted
    /\ outcome = Throw(ProviderFailure)

-----------------------------------------------------------------------------
(* Claims about fetchProviderModels, checked under SpecCalls *)

Listing == op.name = "fetchProviderModels" /\ op.pc = "done"

IsArray(l) == DOMAIN l = 1..Len(l)

\* The body of the answer, parsed, when there is one.
ListingBodyParsed == op.response.kind = "text" /\ JSONparse(op.response.text).ok
ListingBody == JSONparse(op.response.text).val

\* The parsed body has a list of models: an array under data or under models.
HasModelArray(data) ==
    Member(data, <<"data">>).t = "arr" \/ Member(data, <<"models">>).t = "arr"

\* C13 (as claimed): fetchProviderModels resolves to an array, and to the
\* fallback catalog of the provider (empty but for openai, deepseek and groq)
\* whenever its request fails: rejected, not OK, a body that is not JSON or a
\* body without a list of models.
C13_FallbackOnEveryFailure ==
    Listing
        => /\ outcome.kind = "return" /\ IsArray(outcome.val)
           /\ (/\ net # <<>>
               /\ \/ ~ListingBodyParsed
                  \/ ~HasModelArray(ListingBody))
                => outcome.val = fallbackModels(op.listing.provider)

\* C13 (amended): fetchProviderModels resolves to an array; when its request
\* is rejected or not OK, or the body is not JSON, is null, has something other
\* than an array under data (or models), or lists an entry without an id, it
\* resolves to the fallback catalog of the provider, which has models for
\* openai, deepseek and groq only; a body in which data and models are both
\* missing or falsy yields the empty list for every provider.
C13_FallbackWhenListingThrows ==
    Listing
        => /\ outcome.kind = "return" /\ IsArray(outcome.val)
           /\ fallbackModels(op.listing.provider) # <<>>
                <=> op.listing.provider \in {"openai", "deepseek", "groq"}
           /\ net # <<>>
                => IF ~ListingBodyParsed \/ ListingBody.t = "null"
                   THEN outcome.val = fallbackModels(op.listing.provider)
                   ELSE LET list == IF JsTruthy(Member(ListingBody, <<"data">>))
                                    THEN Member(ListingBody, <<"data">>)
                                    ELSE Member(ListingBody, <<"models">>)
                        IN  IF ~JsTruthy(list) THEN outcome.val = <<>>
                            ELSE IF list.t # "arr"
                                    \/ \E i \in 1..Len(list.v) : Member(list.v[i], <<"id">>).t # "str"
                                 THEN outcome.val = fallbackModels(op.listing.provider)
                                 ELSE Len(outcome.val) <= Len(list.v)

\* C13 witness: the request of the listing for groq failed and the call
\* resolved to the three models of groq's fallback catalog.
C13_Witness ==
    /\ Listing /\ op.listing.provider = "groq"
    /\ Len(net) = 1 /\ op.response = Failure
    /\ outcome.kind = "return" /\ Len(outcome.val) = 3
    /\ outcome.val[1].id = <<"llama-3.3-70b-versatile">>

\* C13: the listing for openai was answered with a body that has no list of
\* models, and the call resolved to the empty list.
C13_EmptyForBodyWithoutList ==
    /\ Listing /\ op.listing.provider = "openai"
    /\ ListingBodyParsed /\ ListingBody.t = "obj" /\ ~HasModelArray(ListingBody)
    /\ outcome = Return(<<>>)

-----------------------------------------------------------------------------
(* Claims about cleanJson, checked under SpecNormalizer *)

\* The texts that wrap the serialization of object o in a ```json fence.
Wrapped(o) == {Fenced(JSONstringify(o)), FencedOpen(JSONstringify(o))}

\* Three backticks in a row somewhere in a string of the value.
RECURSIVE HasFence(_)
HasFence(x) ==
    CASE x.t = "str" -> includes(x.v, <<Backtick, Backtick, Backtick>>)
      [] x.t = "arr" -> \E i \in 1..Len(x.v) : HasFence(x.v[i])
      [] x.t = "obj" -> \E k \in DOMAIN x.v : HasFence(x.v[k])
      [] OTHER -> FALSE

\* C14: for every object, JSON.parse(cleanJson(text)) of its serialization
\* wrapped in a ```json fence, closed or not, is the object again, whatever
\* backticks its strings hold.
C14_RoundTrip ==
    \A o \in JsonObjects :
        (op.name = "cleanJson" /\ op.pc = "done" /\ op.response.text \in Wrapped(o))
            => outcome = Return(o)

\* C14: the round trip holds for the objects none of whose strings holds three
\* backticks in a row; for the others the result is the object with every such
\* triple removed from its strings, never the object.
C14_RoundTripWithoutFence ==
    \A o \in JsonObjects :
        (op.name = "cleanJson" /\ op.pc = "done" /\ op.response.text \in Wrapped(o))
            => /\ outcome.kind = "return"
               /\ outcome.val = o <=> ~HasFence(o)

\* C14: an object with a single and a double backtick in its strings has made
\* the round trip.
C14_BackticksSurvive ==
    /\ op.name = "cleanJson" /\ op.pc = "done"
    /\ outcome.kind = "return"
    /\ Member(outcome.val, <<"title">>) = JStr(<<Backtick, "code", Backtick>>)
    /\ Member(outcome.val, <<"summary">>) = JStr(<<Backtick, Backtick>>)
    /\ op.response.text \in Wrapped(outcome.val)

-----------------------------------------------------------------------------
(* Claims about the reading of the settings, checked under SpecRead *)

Reading == op.name \in {"getLLMSettings", "getTaskSettings"} /\ op.pc = "done"

\* The hardcoded default: google, the default model, vision and search, no
\* overrides.
IsDefault(config) ==
    /\ config.provider = "google" /\ config.modelName = "gemini-2.0-flash-exp"
    /\ config.supportsVision /\ config.supportsSearch
    /\ config.overrides = EmptyObject

\* C15: getLLMSettings and getTaskSettings return a config for every content of
\* the key, and the hardcoded default when the key is absent.
C15_ReadNeverFails ==
    Reading
        => /\ outcome.kind = "return"
           /\ stored.kind = "absent" => IsDefault(outcome.val)

\* C15: the readers return a config when the key is absent, holds the empty
\* string, what saveLLMSettings wrote, or JSON other than null; they return the
\* default when nothing is persisted; they throw when the text is not JSON or
\* is null.
C15_ReadFailsOnMalformed ==
    Reading
        => /\ outcome.kind = "throw"
                <=> /\ stored.kind = "text" /\ stored.val # <<>>
                    /\ \/ ~JSONparse(stored.val).ok
                       \/ JSONparse(stored.val).val.t = "null"
           /\ (stored.kind = "absent" \/ stored.val = <<>>) => outcome = Return(DEFAULT_SETTINGS)
           /\ outcome.kind = "return" => "provider" \in DOMAIN outcome.val

\* C15: the key holds a text that is not JSON and getTaskSettings has thrown
\* the SyntaxError of JSON.parse.
C15_MalformedThrows ==
    /\ op.name = "getTaskSettings" /\ op.pc = "done"
    /\ stored = TextItem(Prose)
    /\ outcome = Throw(SyntaxError)

\* C15: nothing is persisted and the default was returned.
C15_DefaultWhenAbsent ==
    /\ Reading /\ stored.kind = "absent"
    /\ outcome.kind = "return" /\ IsDefault(outcome.val)

-----------------------------------------------------------------------------
(* Claims about the settings modal and the persisted record, checked under
   SpecModal and SpecSettings *)

\* A step of handleSave: it alone starts a close timer.
SaveStep == pendingClose' > pendingClose

\* C16: the persisted record changes only in a step of handleSave, which
\* writes the whole draft of the modal; every other step (an edit of a field,
\* the creation or removal of an override, a change of tab, the start and the
\* end of a fetch of the models, a close, the opening) leaves it as it is.
C16_StoredChangesOnlyOnSave ==
    [][IF SaveStep
       THEN stored' = saveLLMSettings(settings) /\ settings' = settings
       ELSE stored' = stored]_vars

\* C16 witness: with a list of models fetched and shown, a draft that differs
\* from the record read at opening has been saved, and the record is that
\* draft.
C16_Witness ==
    /\ availableModels # <<>>
    /\ pendingClose > 0
    /\ stored \notin InitialItems
    /\ stored = saveLLMSettings(settings)

\* C16: the draft was edited and the modal closed without a save; the record
\* is still the initial one.
C16_CancelledEdit ==
    /\ ~isOpen /\ pendingClose = 0 /\ edits > 0
    /\ stored \in InitialItems
    /\ saveLLMSettings(settings) # stored /\ settings # getLLMSettings

\* A step that changes the draft of the open modal: an edit of a field, the
\* creation or the removal of an override, on the tab shown.
DraftStep == isOpen /\ isOpen' /\ settings' # settings

\* The fields of the global record in the draft, its overrides aside.
GlobalFields(s) == [k \in (DOMAIN s) \ {"overrides"} |-> s[k]]

\* C17: a change of the draft on the global tab leaves its overrides as they
\* are; a change on a task tab leaves the global fields and the overrides of
\* the other tasks as they are; a save writes every override of the draft; and
\* so a save of a draft whose overrides were not touched since it was loaded
\* leaves every override of the persisted record present and unchanged.
C17_OverridesPreserved ==
    [][/\ DraftStep
            => IF activeTab = "global"
               THEN settings'.overrides = settings.overrides
               ELSE /\ GlobalFields(settings') = GlobalFields(settings)
                    /\ \A t \in (DOMAIN settings.overrides) \ {activeTab} :
                          /\ t \in DOMAIN settings'.overrides
                          /\ settings'.overrides[t] = settings.overrides[t]
                    /\ DOMAIN settings'.overrides \subseteq DOMAIN settings.overrides \cup {activeTab}
       /\ SaveStep
            => /\ DOMAIN stored'.val.overrides = DOMAIN settings.overrides
               /\ \A t \in DOMAIN settings.overrides :
                     stored'.val.overrides[t] = JsonRoundTrip(settings.overrides[t])
               /\ \A t \in TaskType :
                     (StoredHasOverride(t) /\ t \notin ovTouched)
                        => /\ StoredHasOverride(t)'
                           /\ stored'.val.overrides[t] = stored.val.overrides[t]]_vars

\* C17 witness: the persisted record had an override for matching; the global
\* model name and key were edited and saved, and the persisted record holds the
\* new global fields and the same override.
C17_Witness ==
    /\ pendingClose > 0 /\ ovTouched = {}
    /\ stored.kind = "json" /\ stored.val.modelName = "my-model"
    /\ StoredHasOverride("matching")
    /\ stored.val.overrides["matching"] = OverrideRecord.overrides["matching"]
    /\ stored.val.overrides["matching"].modelName = "gpt-4o"

\* C17: the override of matching was edited in the draft while the global fields
\* stayed those of the record loaded.
C17_OverrideEdited ==
    /\ isOpen /\ ovTouched = {"matching"}
    /\ "matching" \in DOMAIN settings.overrides
    /\ settings.overrides["matching"].modelName = "my-model"
    /\ GlobalFields(settings) = GlobalFields(getLLMSettings)

-----------------------------------------------------------------------------
(* Claims about generateContent, checked under SpecCalls *)

\* The functions that make one call of generateContent and no other request.
ThroughGenerateContent == op.name \in {"generateContent", "analyzeJobMatch"}

\* C19: one call of generateContent sends at most one request, whatever the
\* provider; when the request fails no other is sent and the call ends at once,
\* by itself with the error of the failure.
C19_NoRetry ==
    [][/\ ThroughGenerateContent' => Len(net') <= 1
       /\ (ThroughGenerateContent /\ op.pc = "awaiting" /\ op'.response.kind = "failure")
            => /\ net' = net
               /\ op'.pc = "done"
               /\ op.name = "generateContent" => outcome' = Throw(ProviderFailure)]_vars

\* C19 witness: generateContent was called under a config that is not
\* google, its one request failed, and it has thrown.
C19_Witness ==
    /\ op.name = "generateContent" /\ op.pc = "done"
    /\ getTaskSettings(NoTask).provider # "google"
    /\ Len(net) = 1 /\ op.response = Failure
    /\ outcome = Throw(ProviderFailure)

-----------------------------------------------------------------------------
(* Claims about parseAPIError, checked under SpecErrors *)

\* The kinds in the order of precedence the claim gives, by their codes.
ClaimedOrder ==
    <<"AUTH_ERROR", "CORS_ERROR", "RATE_LIMIT", "NETWORK_ERROR", "TIMEOUT", "VISION_ERROR",
      "GROUNDING_ERROR", "PARSE_ERROR", "SERVER_ERROR", "MODEL_ERROR", "CONTENT_BLOCKED">>

Classified == op.name = "parseAPIError" /\ op.pc = "done"

\* C20: the code parseAPIError gives an Error is that of the first kind, in
\* the order authentication, CORS, rate limit, network, timeout, vision,
\* grounding, parse, server, model, content blocked, one of whose markers its
\* message holds, with that kind's message; a message with an authentication
\* marker and a network marker gets the authentication code; a message with no
\* marker gets no code and is kept as it is. A thrown string gets no code and
\* is the message; any other value gets no code and the default message.
C20_Precedence ==
    Classified
        => LET m == op.response.text
               hits == {i \in 1..Len(ClaimedOrder) : mentions(m, ClaimedOrder[i])}
               result == outcome.val
           IN  CASE op.response.kind = "Error" ->
                      /\ IF hits = {}
                         THEN result.code = Undefined /\ result.message = m
                         ELSE \E i \in hits :
                                /\ \A k \in hits : i <= k
                                /\ result.code = ClaimedOrder[i]
                                /\ result.message = <<ErrorTexts[ClaimedOrder[i]]>>
                      /\ (mentions(m, "AUTH_ERROR") /\ mentions(m, "NETWORK_ERROR"))
                            => result.code = "AUTH_ERROR"
                 [] op.response.kind = "string" ->
                      result.code = Undefined /\ result.message = m
                 [] OTHER ->
                      result.code = Undefined /\ result.message = <<DefaultMessage>>

\* C20 witness: an Error whose message holds "fetch" and then "401" was
\* classified as an authentication error.
C20_Witness ==
    /\ Classified
    /\ op.response = ErrorOf(<<"fetch", "401">>)
    /\ outcome.val.code = "AUTH_ERROR"
    /\ outcome.val.title = <<"Job Search", ": ", "Authentication Error">>

\* C20: an Error whose message holds no marker was given no code and its own
\* message.
C20_UnknownKeepsMessage ==
    /\ Classified
    /\ op.response = ErrorOf(<<"Base URL is missing for this provider.">>)
    /\ outcome.val.code = Undefined
    /\ outcome.val.message = <<"Base URL is missing for this provider.">>

-----------------------------------------------------------------------------
(* Claims about the result of searchJobs, checked under SpecCalls *)

\* searchJobs has ended on a text the provider answered.
SearchAnswered == op.name = "searchJobs" /\ op.pc = "done" /\ op.response.kind = "text"

\* What JSON.parse makes of the answer (gemini.ts 544).
SearchParsed == JSONparse(cleanJson(IF op.response.text = <<>> THEN <<"[", "]">> ELSE op.response.text))

\* C21: when the text answered to searchJobs is not JSON, or is JSON but not
\* an array, searchJobs returns the empty list and throws nothing.
C21_EmptyListOnParseFailure ==
    (SearchAnswered /\ (~SearchParsed.ok \/ SearchParsed.val.t # "arr"))
        => outcome = Return(JArr(<<>>))

\* C21 witness: searchJobs has returned on a text that is not JSON.
C21_Witness ==
    /\ SearchAnswered
    /\ op.response.text = Prose
    /\ ~SearchParsed.ok
    /\ outcome.kind = "return"

\* C21: searchJobs has returned the empty list on JSON that is an object.
C21_ObjectGivesEmptyList ==
    /\ SearchAnswered
    /\ op.response.text = JobJson
    /\ SearchParsed.ok /\ SearchParsed.val.t = "obj"
    /\ outcome = Return(JArr(<<>>))

BackfilledFields == {"id", "location", "summary", "source"}

NonEmptyString(x) == x.t = "str" /\ x.v # <<>>

\* searchJobs has returned on an answer that is a JSON array.
SearchListed ==
    SearchAnswered /\ SearchParsed.ok /\ SearchParsed.val.t = "arr" /\ outcome.kind = "return"

\* C22: searchJobs returns one job for each record of the answered array;
\* every job has a non-empty id, location, summary and source; and every field
\* a record holds is in its job with the same value.
C22_EveryJobPopulated ==
    SearchListed
        => LET records == SearchParsed.val.v
               returned == outcome.val.v
           IN  IF Len(returned) # Len(records) THEN FALSE
               ELSE \A i \in 1..Len(returned) :
                      /\ \A f \in BackfilledFields : NonEmptyString(Member(returned[i], <<f>>))
                      /\ \A k \in DOMAIN ownProperties(records[i]) :
                            Same(Member(returned[i], k), Member(records[i], k))

\* C22: what the code ensures.  A job's location, summary and source are
\* truthy; its id is truthy unless it is the generated one and that is empty;
\* a field a record holds with a truthy value is in its job with that value;
\* and a record with the four fields truthy is returned as it is.
C22_DefaultsForFalsyFields ==
    (SearchListed /\ outcome.val.v # <<>>)
        => LET records == SearchParsed.val.v
               returned == outcome.val.v
           IN  /\ Len(returned) = Len(records)
               /\ \A i \in 1..Len(returned) :
                    /\ \A f \in BackfilledFields \ {"id"} : JsTruthy(Member(returned[i], <<f>>))
                    /\ JsTruthy(Member(returned[i], <<"id">>)) \/ ~JsTruthy(Member(records[i], <<"id">>))
                    /\ \A k \in DOMAIN ownProperties(records[i]) :
                          JsTruthy(Member(records[i], k))
                              => Same(Member(returned[i], k), Member(records[i], k))
                    /\ (\A f \in BackfilledFields : JsTruthy(Member(records[i], <<f>>)))
                          => DOMAIN returned[i].v = DOMAIN records[i].v

\* C22: a job was returned with the empty string as its id.
C22_EmptyGeneratedId ==
    /\ SearchListed
    /\ \E i \in 1..Len(outcome.val.v) : Same(Member(outcome.val.v[i], <<"id">>), JStr(<<>>))

\* C22: the id 0 of a record was replaced by a generated one.
C22_ZeroIdReplaced ==
    /\ SearchListed
    /\ op.response.text = <<"[">> \o JobJsonZeroId \o <<"]">>
    /\ Member(outcome.val.v[1], <<"id">>).t = "str"

\* C22: a fully populated record was returned as it is.
C22_FullRecordUnchanged ==
    /\ SearchListed
    /\ op.response.text = <<"[">> \o JobJsonFull \o <<"]">>
    /\ outcome.val = SearchParsed.val

-----------------------------------------------------------------------------
(* Claims about the result of analyzeJobMatch, checked under SpecCalls *)

\* types.ts 19-25: the fields of a JobAnalysis
AnalysisFields == {"jobId", "bestResumeId", "matchScore", "reasoning", "missingKeywords"}

AnalysisReturned == op.name = "analyzeJobMatch" /\ op.pc = "done" /\ outcome.kind = "return"

\* C23: the value analyzeJobMatch returns has every field of a JobAnalysis, and
\* its matchScore is a number from 0 to 100, whatever text the provider
\* answered.
C23_AnalysisComplete ==
    AnalysisReturned
        => /\ outcome.val.t = "obj"
           /\ \A f \in AnalysisFields : Member(outcome.val, <<f>>).t # "undefined"
           /\ Member(outcome.val, <<"matchScore">>).t = "num"
           /\ Member(outcome.val, <<"matchScore">>).v \in 0..100

\* C23: what the code ensures.  The value returned has the job's id; when the
\* text is not JSON it is the fallback of the catch block, which is complete
\* and has the score 0; when the text is JSON it has, besides jobId, the
\* properties of the parsed value and no other.
C23_ParsedValueAsItIs ==
    AnalysisReturned
        => LET parsed == JSONparse(cleanJson(op.response.text))
           IN  /\ Same(Member(outcome.val, <<"jobId">>), JStr(Text(op.job.id)))
               /\ IF parsed.ok
                  THEN DOMAIN outcome.val.v = DOMAIN ownProperties(parsed.val) \cup {<<"jobId">>}
                  ELSE /\ DOMAIN outcome.val.v = {<<f>> : f \in AnalysisFields}
                       /\ Same(Member(outcome.val, <<"matchScore">>), JNum(0))

\* C23: on the answer null the analysis returned has the job's id and no
\* other field.
C23_OnlyJobId ==
    /\ AnalysisReturned
    /\ op.response.text = <<"null">>
    /\ DOMAIN outcome.val.v = {<<"jobId">>}

\* C23: an analysis was returned with the score 140.
C23_ScoreOutOfRange ==
    /\ AnalysisReturned
    /\ Same(Member(outcome.val, <<"matchScore">>), JNum(140))

-----------------------------------------------------------------------------
(* Claims about the query generators, checked under SpecCalls *)

QueryReturned ==
    /\ op.name \in {"getSearchQueryFromResume", "generateDorkFromResume"}
    /\ op.pc = "done" /\ outcome.kind = "return"

\* The answer without its quotes and backticks, trimmed.
WithoutArtifacts(text) == trim(removeAll(removeAll(text, <<Quote>>), <<Backtick>>))

\* C24: neither generator returns the empty string, and both return
\* "Software Engineer" when the answer is empty once its quotes and backticks
\* are removed and it is trimmed.
C24_NeverEmptyQuery ==
    QueryReturned
        => /\ outcome.val.v # <<>>
           /\ WithoutArtifacts(op.response.text) = <<>> => outcome.val.v = FallbackQuery

\* C24: what the code ensures.  getSearchQueryFromResume never returns the
\* empty string and returns the fallback when the answer is empty once its
\* quotes are removed and it is trimmed; generateDorkFromResume returns the
\* answer without its backticks, trimmed, be it empty or not.
C24_FallbackInSearchQueryOnly ==
    QueryReturned
        => IF op.name = "getSearchQueryFromResume"
           THEN /\ outcome.val.v # <<>>
                /\ trim(removeAll(op.response.text, <<Quote>>)) = <<>>
                       => outcome.val.v = FallbackQuery
           ELSE outcome.val.v = trim(removeAll(op.response.text, <<Backtick>>))

\* C24: generateDorkFromResume has returned the empty string.
C24_EmptyDork ==
    /\ QueryReturned
    /\ op.name = "generateDorkFromResume"
    /\ outcome.val.v = <<>>

\* C24: getSearchQueryFromResume has returned the fallback on an empty answer.
C24_FallbackReturned ==
    /\ QueryReturned
    /\ op.name = "getSearchQueryFromResume"
    /\ op.response.text = <<>>
    /\ outcome.val.v = FallbackQuery

-----------------------------------------------------------------------------
(* Claims about the errors of generateContent, checked under SpecCalls *)

\* generateContent has ended on an answer of the anthropic endpoint whose
\* status is not OK.
AnthropicNotOk ==
    /\ op.name = "generateContent" /\ op.pc = "done"
    /\ net[1].base = "https://api.anthropic.com"
    /\ op.response.kind = "notok"

\* The error.message of a body, "" when the body has none or is not JSON.
BodyMessage(body) ==
    LET parsed == JSONparse(body)
        message == Member(Member(parsed.val, <<"error">>), <<"message">>)
    IN  IF parsed.ok /\ message.t = "str" THEN Word(message.v) ELSE ""

\* C25: for the anthropic provider, an answer whose status is not OK makes
\* generateContent throw an error whose message is the error.message of the
\* body when it has one and the hint "Check CORS/Key" otherwise, also when the
\* body is empty or is not JSON.
C25_MessageOrHint ==
    AnthropicNotOk
        => /\ outcome.kind = "throw"
           /\ outcome.error = IF BodyMessage(op.response.text) # ""
                              THEN BodyMessage(op.response.text) ELSE AnthropicHint

\* C25: what the code ensures.  Such an answer makes generateContent throw;
\* when the body is JSON and not null the message is its error.message or
\* else the hint; when the body is empty or is not JSON the error is the
\* SyntaxError of res.json().
C25_MessageOrHintForJsonBody ==
    AnthropicNotOk
        => LET parsed == JSONparse(op.response.text)
           IN  /\ outcome.kind = "throw"
               /\ (parsed.ok /\ parsed.val.t # "null")
                     => outcome.error = IF BodyMessage(op.response.text) # ""
                                        THEN BodyMessage(op.response.text) ELSE AnthropicHint
               /\ ~parsed.ok => outcome.error = SyntaxError

\* C25: generateContent has thrown a SyntaxError on an anthropic answer with
\* an empty body.
C25_SyntaxErrorOnEmptyBody ==
    /\ AnthropicNotOk
    /\ op.response.text = <<>>
    /\ outcome = Throw(SyntaxError)

\* C25: generateContent has thrown the message of the body.
C25_BodyMessageThrown ==
    /\ AnthropicNotOk
    /\ op.response.text = ErrorBody
    /\ outcome = Throw("invalid x-api-key")

-----------------------------------------------------------------------------
(* Claims about where the API key is sent, checked under SpecCalls *)

\* generateContent or parseResumeFromFile has sent a request.
KeySent == op.name \in {"generateContent", "parseResumeFromFile"} /\ net # <<>>

\* The config the call in progress uses.
ConfigUsed ==
    IF op.name = "parseResumeFromFile" THEN getTaskSettings("parsing") ELSE getTaskSettings(op.task)

\* The endpoint of each provider: the SDK for google, the provider's own API,
\* and for custom the base URL of the config or the local default.
OwnEndpoint(config) ==
    CASE config.provider = "google" -> "google-sdk"
      [] config.provider = "anthropic" -> "https://api.anthropic.com"
      [] config.provider = "openai" -> "https://api.openai.com/v1"
      [] config.provider = "deepseek" -> "https://api.deepseek.com"
      [] config.provider = "groq" -> "https://api.groq.com/openai/v1"
      [] config.provider = "openrouter" -> "https://openrouter.ai/api/v1"
      [] OTHER -> IF Truthy(Get(config, "baseUrl")) THEN Get(config, "baseUrl") ELSE LocalBaseUrl

\* C26: every request generateContent and parseResumeFromFile send, with the
\* key of the config, goes to the endpoint of the provider of that config.
C26_KeyToOwnEndpoint ==
    KeySent
        => \A i \in 1..Len(net) :
              net[i].apiKey = ConfigUsed.apiKey /\ net[i].base = OwnEndpoint(ConfigUsed)

\* C26: what the code ensures.  Every request carries the key of the config;
\* those of generateContent go to the provider's endpoint; those of
\* parseResumeFromFile do too, but for anthropic and deepseek, whose requests go
\* to the base URL of the config or, when it has none, to the endpoint of
\* openai.
C26_OwnEndpointButVision ==
    KeySent
        => \A i \in 1..Len(net) :
              /\ net[i].apiKey = ConfigUsed.apiKey
              /\ IF op.name = "parseResumeFromFile" /\ ConfigUsed.provider \in {"anthropic", "deepseek"}
                 THEN net[i].base = IF Truthy(Get(ConfigUsed, "baseUrl")) THEN Get(ConfigUsed, "baseUrl")
                                    ELSE "https://api.openai.com/v1"
                 ELSE net[i].base = OwnEndpoint(ConfigUsed)

\* C26: parseResumeFromFile under an anthropic config has sent the key of the
\* config to the endpoint of openai.
C26_AnthropicKeyToOpenAI ==
    /\ op.name = "parseResumeFromFile" /\ net # <<>>
    /\ getTaskSettings("parsing").provider = "anthropic"
    /\ getTaskSettings("parsing").apiKey = "k1"
    /\ net[1].base = "https://api.openai.com/v1"
    /\ net[1].apiKey = "k1"

-----------------------------------------------------------------------------
(* Claims about the list of tracked jobs, checked under SpecTrack *)

\* A call of the track handler.
TrackStep == lastTrack'.calls = lastTrack.calls + 1

\* The fields of an entry that a track call may write.
TrackWritten == {"status", "appliedDate"}

\* C27: the tracked list never holds two entries with one id.  A track call for
\* an id in the list keeps the list's length and every other entry, and in the
\* entry of that id changes nothing but status (set to the call's) and
\* appliedDate; a call for an id not in the list appends one entry with that
\* id and status and keeps the others; no step shortens the list or changes the
\* id at a position.
C27_OneEntryPerId ==
    [][/\ \A i, k \in 1..Len(trackedJobs') : trackedJobs'[i].id = trackedJobs'[k].id => i = k
       /\ Len(trackedJobs') >= Len(trackedJobs)
       /\ \A i \in 1..Len(trackedJobs) : trackedJobs'[i].id = trackedJobs[i].id
       /\ TrackStep
            => LET at == findIndex(trackedJobs, lastTrack'.id)
               IN  IF at > 0
                   THEN /\ Len(trackedJobs') = Len(trackedJobs)
                        /\ \A i \in 1..Len(trackedJobs) : i # at => trackedJobs'[i] = trackedJobs[i]
                        /\ DOMAIN trackedJobs'[at] = DOMAIN trackedJobs[at]
                        /\ \A f \in DOMAIN trackedJobs[at] \ TrackWritten :
                              trackedJobs'[at][f] = trackedJobs[at][f]
                        /\ trackedJobs'[at].status = lastTrack'.status
                   ELSE /\ Len(trackedJobs') = Len(trackedJobs) + 1
                        /\ SubSeq(trackedJobs', 1, Len(trackedJobs)) = trackedJobs
                        /\ trackedJobs'[Len(trackedJobs')].id = lastTrack'.id
                        /\ trackedJobs'[Len(trackedJobs')].status = lastTrack'.status
       /\ ~TrackStep => trackedJobs' = trackedJobs]_vars

\* C27 witness: after three track calls the list holds the two jobs once each,
\* the entry tracked twice in its first place.
C27_Witness ==
    /\ lastTrack.calls = 3
    /\ Len(trackedJobs) = 2
    /\ trackedJobs[1].id = lastTrack.id
    /\ trackedJobs[1].id # trackedJobs[2].id
    /\ trackedJobs[1].status = "rejected"

-----------------------------------------------------------------------------
(* Claims about the end of the analysis loop, checked under SpecSearchLive *)

NoneAnalyzing == \A i \in 1..Len(jobs) : ~jobs[i].isAnalyzing

\* C28: when every call of searchJobsSafe and analyzeJobMatchSafe completes,
\* from some point on no job of the list shown is analyzing, whether its
\* analysis succeeded or failed, with ids repeated in a result and with the
\* list replaced by another search or cleared by a mode switch during a loop.
C28_EveryJobLeavesAnalyzing == <>[]NoneAnalyzing

\* C28 witness: two searches have ended, the second having replaced the list of
\* the first; the list shown holds two jobs of one id, none analyzing, one with
\* an analysis and one without.
C28_Witness ==
    /\ \A s \in 1..MaxSearches : procs[s].pc = "done"
    /\ Len(procs[1].found) > 0
    /\ calls = {}
    /\ Len(jobs) = 2
    /\ jobs[1].id = jobs[2].id
    /\ NoneAnalyzing
    /\ \E i \in 1..2 : jobs[i].analysis = None

\* No call of searchJobsSafe or analyzeJobMatchSafe is awaited.
NothingAwaited ==
    /\ calls = {}
    /\ \A s \in 1..MaxSearches : procs[s].pc # "searching"

\* C28: the same as a property of states.  Whenever every call made so far
\* has returned, no job of the list shown is analyzing.
C28_SettledWhenNothingAwaited == NothingAwaited => NoneAnalyzing

-----------------------------------------------------------------------------
(* Claims about the model list of the settings modal, checked under SpecModal *)

\* The listing of the config edited now.
CurrentListing ==
    [provider |-> currentConfig.provider, apiKey |-> currentConfig.apiKey,
     baseUrl |-> Get(currentConfig, "baseUrl"), started |-> TRUE]

\* The modal shows the form of a config and no listing is scheduled or in
\* flight.
ListingsSettled == isOpen /\ (activeTab = "global" \/ isOverridden) /\ listings = {}

\* C29: once every listing has settled, the list shown is one that
\* fetchProviderModels gives for the provider, key and base URL edited now.
C29_ShownListIsCurrent ==
    ListingsSettled => \E answer \in ModalAnswers : availableModels = fetchedModels(CurrentListing, answer)

\* C29: what the code ensures.  The list shown is the one of the call that
\* settled last, whatever config it was started for: no step but the
\* settling of a call (and the reset on a tab that inherits) changes it.
C29_LastSettledWins ==
    [][availableModels' # availableModels
          => \/ \E l \in listings, answer \in ModalAnswers :
                   l.started /\ l \notin listings' /\ availableModels' = fetchedModels(l, answer)
             \/ availableModels' = <<>> /\ activeTab' # "global" /\ ~isOverridden']_vars

\* C29: every listing has settled and the list shown is the catalog of
\* anthropic while the config edited is google's.
C29_StaleListShown ==
    /\ ListingsSettled
    /\ currentConfig.provider = "google"
    /\ availableModels = AnthropicModels

-----------------------------------------------------------------------------
(* Claims about the API-key gate, checked under SpecGate *)

\* A handler has been through its gate.
Gated == op.pc \in {"blocked", "calling"}

\* The config the service behind the handler will read has no key and a
\* provider other than custom.
EffectiveKeyMissing ==
    getTaskSettings(op.task).apiKey = "" /\ getTaskSettings(op.task).provider # "custom"

\* C30: the gate blocks a handler exactly when the config of the handler's
\* task, as getTaskSettings returns it, has an empty key and a provider other
\* than custom.
C30_GateOnEffectiveConfig ==
    Gated => (op.pc = "blocked" <=> EffectiveKeyMissing)

\* C30: what the code ensures.  The gate blocks exactly when the global record
\* has an empty key and a provider other than custom, whatever the overrides.
C30_GateOnGlobalConfig ==
    Gated => (op.pc = "blocked"
                <=> (getLLMSettings.apiKey = "" /\ getLLMSettings.provider # "custom"))

\* C30: a handler was blocked although the override of its task has a key.
C30_BlockedDespiteTaskKey ==
    /\ op.pc = "blocked"
    /\ op.task \in DOMAIN getLLMSettings.overrides
    /\ getTaskSettings(op.task).apiKey = "k2"

\* C30: a handler went on to its call although the override of its task has no
\* key.
C30_PassedWithoutTaskKey ==
    /\ op.pc = "calling"
    /\ op.task \in DOMAIN getLLMSettings.overrides
    /\ getTaskSettings(op.task).apiKey = ""
    /\ getTaskSettings(op.task).provider # "custom"

=============================================================================
